---------------------------- MODULE Spec2Model ----------------------------
(***************************************************************************)
(* A model of c3d.py: the C3D header, the group/parameter directory, the   *)
(* metadata store (Manager), the frame decoder (Reader) and the frame      *)
(* encoder (Writer).                                                       *)
(*                                                                         *)
(* Conventions                                                             *)
(*   - A byte string is a sequence of numbers 0..255; a text is a sequence *)
(*     of code points (a text of ASCII characters is its own bytes).       *)
(*   - A Python/numpy float is a rational [n |-> numerator, d |->          *)
(*     denominator], kept in lowest terms.  Only dyadic values of a few    *)
(*     bits are drawn, for which IEEE arithmetic is exact.                 *)
(*   - self.groups, one dict keyed by both ints and strs, is the pair      *)
(*     (groups_id, groups_name) of maps into `heap`, the Group objects:    *)
(*     two keys alias one Group when they hold the same handle.            *)
(*   - Each part has its own specification: Spec (the metadata store),     *)
(*     SpecWriter, SpecCodec (one point through _write_frames and          *)
(*     read_frames), SpecCheck (check_metadata), SpecReader, SpecAnalog    *)
(*     (the Reader on files with analog channels), SpecCommit              *)
(*     (_write_metadata), SpecFrames (_write_frames) and SpecDirectory     *)
(*     (Group.write).                                                      *)
(***************************************************************************)
EXTENDS Integers, Sequences, FiniteSets, TLC

(***************************************************************************)
(* Numbers                                                                 *)
(***************************************************************************)
Abs(i) == IF i < 0 THEN -i ELSE i

Min(a, b) == IF a < b THEN a ELSE b

Max(a, b) == IF a > b THEN a ELSE b

RECURSIVE Gcd(_, _)
Gcd(a, b) == IF b = 0 THEN a ELSE Gcd(b, a % b)

RECURSIVE Pow2(_)
Pow2(k) == IF k = 0 THEN 1 ELSE 2 * Pow2(k - 1)

\* The rational num/den in lowest terms with a positive denominator.
Rat(num, den) ==
    LET g == Gcd(Abs(num), Abs(den))
        s == IF den < 0 THEN -1 ELSE 1
    IN  [n |-> (s * num) \div g, d |-> (s * den) \div g]

RInt(k) == [n |-> k, d |-> 1]

RMul(a, b) == Rat(a.n * b.n, a.d * b.d)

\* a / b for b # 0
RDiv(a, b) == Rat(a.n * b.d, a.d * b.n)

RSub(a, b) == Rat(a.n * b.d - b.n * a.d, a.d * b.d)

RAbs(a) == [n |-> Abs(a.n), d |-> a.d]

RLess(a, b) == a.n * b.d < b.n * a.d

RIsZero(a) == a.n = 0

\* Truncation toward zero, C's conversion of a floating value to an integer.
RTrunc(a) == IF a.n < 0 THEN -((-a.n) \div a.d) ELSE a.n \div a.d


(***************************************************************************)
(* struct.pack / struct.unpack, little-endian                              *)
(***************************************************************************)
Byte == 0 .. 255

\* struct.pack('<H', v); struct.error unless 0 <= v <= 65535
PackU16Ok(v) == v \in 0 .. 65535

PackU16(v) == <<v % 256, v \div 256>>

\* struct.pack('<I', v) for v < 2^31
PackU32(v) == <<v % 256, (v \div 256) % 256, (v \div 65536) % 256, v \div 16777216>>

\* struct.unpack('<H', b)[0]; struct.error unless len(b) = 2
UnpackU16(b) == b[1] + 256 * b[2]

\* struct.unpack('<h', b)[0]
UnpackI16(b) == LET u == UnpackU16(b) IN IF u >= 32768 THEN u - 65536 ELSE u

\* struct.unpack('b', b)[0] of one byte
UnpackI8(v) == IF v >= 128 THEN v - 256 ELSE v

\* struct.pack('b', v) of -128 <= v <= 127
PackI8(v) == IF v < 0 THEN v + 256 ELSE v

\* struct.unpack('<i', b)[0], for the values below 2^31 the model draws
UnpackI32(b) ==
    LET lo == b[1] + 256 * b[2] + 65536 * b[3]
    IN  IF b[4] >= 128 THEN lo + 16777216 * (b[4] - 128) - 2147483647 - 1
        ELSE lo + 16777216 * b[4]

\* The binary exponent k with 2^23 <= |r| / 2^k < 2^24, searched from k.
RECURSIVE F32Exp(_, _)
F32Exp(r, k) ==
    LET num == IF k < 0 THEN Abs(r.n) * Pow2(-k) ELSE Abs(r.n)
        den == IF k < 0 THEN r.d ELSE r.d * Pow2(k)
    IN  IF num >= 16777216 * den THEN F32Exp(r, k + 1)
        ELSE IF num < 8388608 * den THEN F32Exp(r, k - 1)
        ELSE k

\* The 24-bit significand of r at exponent k, rounded to nearest, ties to even.
F32Sig(r, k) ==
    LET num == IF k < 0 THEN Abs(r.n) * Pow2(-k) ELSE Abs(r.n)
        den == IF k < 0 THEN r.d ELSE r.d * Pow2(k)
        q   == num \div den
        rem == num % den
    IN  IF 2 * rem > den \/ (2 * rem = den /\ q % 2 = 1) THEN q + 1 ELSE q

\* struct.pack('<f', r): IEEE 754 single precision of a nonzero normal value
\* or of zero.
PackF32(r) ==
    IF r.n = 0 THEN <<0, 0, 0, 0>>
    ELSE LET k0  == F32Exp(r, 0)
             s0  == F32Sig(r, k0)
             k   == IF s0 = 16777216 THEN k0 + 1 ELSE k0
             sig == IF s0 = 16777216 THEN 8388608 ELSE s0
             m   == sig - 8388608
             e   == k + 150
             s   == IF r.n < 0 THEN 1 ELSE 0
         IN  <<m % 256, (m \div 256) % 256,
               (m \div 65536) + 128 * (e % 2), 128 * s + (e \div 2)>>

\* struct.unpack('<f', b)[0] of a zero or a normal value
UnpackF32(b) ==
    LET s == b[4] \div 128
        e == (b[4] % 128) * 2 + (b[3] \div 128)
        m == (b[3] % 128) * 65536 + b[2] * 256 + b[1]
        k == e - 150
        v == IF e = 0 /\ m = 0 THEN RInt(0)
             ELSE IF k >= 0 THEN RInt((8388608 + m) * Pow2(k))
             ELSE Rat(8388608 + m, Pow2(-k))
    IN  IF s = 1 THEN [n |-> -v.n, d |-> v.d] ELSE v

\* A Python float stored as a numpy/array float32 and read back.
AsFloat32(r) == UnpackF32(PackF32(r))


(***************************************************************************)
(* Texts                                                                   *)
(***************************************************************************)
\* str.upper() on the code points of a text
Upper(t) == [i \in 1 .. Len(t) |-> IF t[i] \in 97 .. 122 THEN t[i] - 32 ELSE t[i]]

\* len(t.encode('utf-8'))
RECURSIVE Utf8Len(_)
Utf8Len(t) ==
    IF t = <<>> THEN 0
    ELSE (IF Head(t) < 128 THEN 1 ELSE IF Head(t) < 2048 THEN 2 ELSE 3)
         + Utf8Len(Tail(t))

\* t.encode('utf-8'), for code points below 2^16
RECURSIVE Utf8(_)
Utf8(t) ==
    IF t = <<>> THEN <<>>
    ELSE (IF Head(t) < 128 THEN <<Head(t)>>
          ELSE IF Head(t) < 2048
          THEN <<192 + (Head(t) \div 64), 128 + (Head(t) % 64)>>
          ELSE <<224 + (Head(t) \div 4096), 128 + ((Head(t) \div 64) % 64),
                 128 + (Head(t) % 64)>>)
         \o Utf8(Tail(t))

\* Python's None, where a text is expected
None == <<-1>>

\* The names the library itself looks up, as code points.
POINT == <<80, 79, 73, 78, 84>>

ANALOG == <<65, 78, 65, 76, 79, 71>>

TRIAL == <<84, 82, 73, 65, 76>>

USED == <<85, 83, 69, 68>>

SCALE == <<83, 67, 65, 76, 69>>

RATE == <<82, 65, 84, 69>>

DATA_START == <<68, 65, 84, 65, 95, 83, 84, 65, 82, 84>>

LABELS == <<76, 65, 66, 69, 76, 83>>

DESCRIPTIONS == <<68, 69, 83, 67, 82, 73, 80, 84, 73, 79, 78, 83>>

(***************************************************************************)
(* Header                                                                  *)
(***************************************************************************)
\* Header.__init__ without a handle
DefaultHeader ==
    [parameter_block |-> 2, data_block |-> 3, point_count |-> 50,
     analog_count |-> 0, first_frame |-> 1, last_frame |-> 1,
     frame_rate |-> RInt(60), scale_factor |-> RInt(-1)]

(***************************************************************************)
(* Param                                                                   *)
(***************************************************************************)
\* Param.__init__ with the keyword defaults of its signature
NewParam(name, desc, bytes_per_element, dimensions, bytes) ==
    [name |-> name, desc |-> desc, bytes_per_element |-> bytes_per_element,
     dimensions |-> dimensions, bytes |-> bytes]

RECURSIVE Product(_)
Product(dims) == IF dims = <<>> THEN 1 ELSE Head(dims) * Product(Tail(dims))

num_elements(p) == Product(p.dimensions)

total_bytes(p) == num_elements(p) * Abs(p.bytes_per_element)

Param_binary_size(p) ==
    1 + 2 + 1 + Utf8Len(p.name) + 1 + 1 + Len(p.dimensions) + total_bytes(p)
      + 1 + Utf8Len(p.desc)

(***************************************************************************)
(* Group                                                                   *)
(***************************************************************************)
NoParams == [k \in {} |-> 0]

\* Group.__init__
NewGroup(name, desc) == [name |-> name, desc |-> desc, params |-> NoParams]

\* dict assignment d[k] = v
DictSet(d, k, v) == [x \in DOMAIN d \cup {k} |-> IF x = k THEN v ELSE d[x]]

\* Group.add_param: the Param is stored, and named, by the upper-cased name.
Group_add_param(g, name, p) ==
    [g EXCEPT !.params = DictSet(g.params, Upper(name), [p EXCEPT !.name = Upper(name)])]

RECURSIVE SumOver(_, _)
SumOver(f, keys) ==
    IF keys = {} THEN 0
    ELSE LET k == CHOOSE x \in keys : TRUE IN f[k] + SumOver(f, keys \ {k})

\* Group.binary_size of a named group (len(None.encode) raises AttributeError)
Group_binary_size(g) ==
    1 + 1 + Utf8Len(g.name) + 2 + 1 + Utf8Len(g.desc)
      + SumOver([k \in DOMAIN g.params |-> Param_binary_size(g.params[k])],
                DOMAIN g.params)


(***************************************************************************)
(* State                                                                   *)
(***************************************************************************)
VARIABLES
    header,        \* Manager.header
    groups_id,     \* Manager.groups, its int keys: id -> handle of a Group
    groups_name,   \* Manager.groups, its str keys: name -> handle of a Group
    heap,          \* the Group objects, by handle
    result,        \* what the last call returned or raised
    config,        \* Writer: the constructor's arguments
    frames,        \* Writer._frames
    handle,        \* the bytes the Writer has written to its file handle
    c_scale,       \* codec: the point scale factor (POINT:SCALE)
    c_origin,      \* codec: "writer" for a buffered point, "file" for a stored one
    c_point,       \* codec: the buffered point (x, y, z, error, cameras)
    c_raw,         \* codec: the four values stored for the point
    c_decoded,     \* codec: the point read_frames yields
    c_stage,       \* codec: how far the point has come
    file,          \* Reader: the bytes of the file behind its handle
    reads,         \* Reader: the sizes of the reads issued on the handle
    r_bytes,       \* Reader.__init__: `bytes`, the directory still to scan
    r_stage,       \* Reader: how far construction has come
    r_frames       \* Reader: the frames read_frames has yielded

mvars == <<header, groups_id, groups_name, heap, result>>

wvars == <<config, frames, handle>>

cvars == <<c_scale, c_origin, c_point, c_raw, c_decoded, c_stage>>

\* What a call on the metadata store, on the Writer, or a step of the point
\* codec leaves alone.
rvars == <<file, reads, r_bytes, r_stage, r_frames>>

outsideManager == <<wvars, cvars, rvars>>

outsideWriter == <<cvars, rvars>>

outsideCodec == <<mvars, wvars, rvars>>

outsideReader == <<wvars, cvars>>

NoGroups == [k \in {} |-> 0]

\* A call's outcome (for a constructor that raised, the call within it that
\* did): its name and arguments, the exception it raised ("" for
\* none) and the number it returned (0 for None).
Returned(op, args, val) == [op |-> op, args |-> args, exc |-> "", val |-> val]

Raised(op, args, exc) == [op |-> op, args |-> args, exc |-> exc, val |-> 0]

(***************************************************************************)
(* Manager                                                                 *)
(***************************************************************************)
\* Manager.get('GROUP:PARAM') is not None
HasParam(group, param) ==
    /\ group \in DOMAIN groups_name
    /\ param \in DOMAIN heap[groups_name[group]].params

GetParam(group, param) == heap[groups_name[group]].params[param]

\* Manager.get_uint16: None.uint16_value raises AttributeError, and
\* struct.unpack('<H', bytes) raises struct.error unless len(bytes) = 2.
get_uint16(group, param) ==
    IF ~HasParam(group, param) THEN [exc |-> "AttributeError", val |-> 0]
    ELSE IF Len(GetParam(group, param).bytes) # 2
         THEN [exc |-> "struct.error", val |-> 0]
    ELSE [exc |-> "", val |-> UnpackU16(GetParam(group, param).bytes)]

\* Manager.get_float
get_float(group, param) ==
    IF ~HasParam(group, param) THEN [exc |-> "AttributeError", val |-> RInt(0)]
    ELSE IF Len(GetParam(group, param).bytes) # 4
         THEN [exc |-> "struct.error", val |-> RInt(0)]
    ELSE [exc |-> "", val |-> UnpackF32(GetParam(group, param).bytes)]

points_per_frame == get_uint16(POINT, USED)

scale_factor == get_float(POINT, SCALE)

frame_rate == get_float(POINT, RATE)

\* Manager.analog_per_frame: AttributeError, and only it, gives 0
analog_per_frame ==
    LET v == get_uint16(ANALOG, USED)
    IN  IF v.exc = "AttributeError" THEN [exc |-> "", val |-> 0] ELSE v

\* Manager.analog_frame_rate
analog_frame_rate ==
    LET v == get_float(ANALOG, RATE)
    IN  IF v.exc = "AttributeError" THEN [exc |-> "", val |-> RInt(0)] ELSE v

\* A check that stops after the analog count and never reads POINT:DATA_START
check_metadata_outcome_without_data_block ==
    LET ppf   == points_per_frame
        sf    == scale_factor
        rate  == frame_rate
        used  == analog_per_frame
        arate == analog_frame_rate
        Fail(exc, at) == [exc |-> exc, at |-> at]
    IN  IF ppf.exc # "" THEN Fail(ppf.exc, "point_count")
        ELSE IF header.point_count # ppf.val THEN Fail("AssertionError", "point_count")
        ELSE IF sf.exc # "" THEN Fail(sf.exc, "scale_factor")
        ELSE IF header.scale_factor # sf.val THEN Fail("AssertionError", "scale_factor")
        ELSE IF rate.exc # "" THEN Fail(rate.exc, "frame_rate")
        ELSE IF header.frame_rate # rate.val THEN Fail("AssertionError", "frame_rate")
        ELSE IF used.exc # "" THEN Fail(used.exc, "analog_count")
        ELSE IF arate.exc # "" THEN Fail(arate.exc, "analog_count")
        ELSE IF RIsZero(rate.val) THEN Fail("ZeroDivisionError", "analog_count")
        ELSE IF RInt(header.analog_count)
                  # RDiv(RMul(RInt(used.val), arate.val), rate.val)
             THEN Fail("AssertionError", "analog_count")
        ELSE Fail("", "")

\* Manager.check_metadata: "" when every assertion passes, else the exception
\* that ends it and the check that raised it.
check_metadata_outcome ==
    LET ppf   == points_per_frame
        sf    == scale_factor
        rate  == frame_rate
        used  == analog_per_frame
        arate == analog_frame_rate
        start == get_uint16(POINT, DATA_START)
        Fail(exc, at) == [exc |-> exc, at |-> at]
    IN  IF ppf.exc # "" THEN Fail(ppf.exc, "point_count")
        ELSE IF header.point_count # ppf.val THEN Fail("AssertionError", "point_count")
        ELSE IF sf.exc # "" THEN Fail(sf.exc, "scale_factor")
        ELSE IF header.scale_factor # sf.val THEN Fail("AssertionError", "scale_factor")
        ELSE IF rate.exc # "" THEN Fail(rate.exc, "frame_rate")
        ELSE IF header.frame_rate # rate.val THEN Fail("AssertionError", "frame_rate")
        ELSE IF used.exc # "" THEN Fail(used.exc, "analog_count")
        ELSE IF arate.exc # "" THEN Fail(arate.exc, "analog_count")
        ELSE IF RIsZero(rate.val) THEN Fail("ZeroDivisionError", "analog_count")
        ELSE IF RInt(header.analog_count)
                  # RDiv(RMul(RInt(used.val), arate.val), rate.val)
             THEN Fail("AssertionError", "analog_count")
        ELSE IF start.exc # "" THEN Fail(start.exc, "data_block")
        ELSE IF header.data_block # start.val THEN Fail("AssertionError", "data_block")
        ELSE Fail("", "")

check_metadata ==
    /\ result' = Raised("check_metadata", <<>>, check_metadata_outcome.exc)
    /\ UNCHANGED <<header, groups_id, groups_name, heap>>

\* add_group without its second test: a name already in use is taken over.
add_group_unchecked_name(group_id, name, desc) ==
    IF group_id \in DOMAIN groups_id
    THEN /\ result' = Raised("add_group", <<group_id, name>>, "KeyError")
         /\ UNCHANGED <<header, groups_id, groups_name, heap>>
    ELSE /\ heap' = Append(heap, NewGroup(Upper(name), desc))
         /\ groups_id' = DictSet(groups_id, group_id, Len(heap) + 1)
         /\ groups_name' = DictSet(groups_name, Upper(name), Len(heap) + 1)
         /\ result' = Returned("add_group", <<group_id, name>>, Len(heap) + 1)
         /\ UNCHANGED header

\* Manager.add_group
add_group(group_id, name, desc) ==
    IF group_id \in DOMAIN groups_id \/ Upper(name) \in DOMAIN groups_name
    THEN /\ result' = Raised("add_group", <<group_id, name>>, "KeyError")
         /\ UNCHANGED <<header, groups_id, groups_name, heap>>
    ELSE /\ heap' = Append(heap, NewGroup(Upper(name), desc))
         /\ groups_id' = DictSet(groups_id, group_id, Len(heap) + 1)
         /\ groups_name' = DictSet(groups_name, Upper(name), Len(heap) + 1)
         /\ result' = Returned("add_group", <<group_id, name>>, Len(heap) + 1)
         /\ UNCHANGED header

\* Group.add_param on the Group with handle h
add_param(h, name, p) ==
    /\ heap' = [heap EXCEPT ![h] = Group_add_param(heap[h], name, p)]
    /\ result' = Returned("add_param", <<>>, 0)
    /\ UNCHANGED <<header, groups_id, groups_name>>

\* sum(g.binary_size() for g in self.groups.values()): one term per key of the
\* dict, so a Group held under its id and under its name is met twice.
GroupsValuesSize ==
    SumOver([k \in DOMAIN groups_id |-> Group_binary_size(heap[groups_id[k]])],
            DOMAIN groups_id)
    + SumOver([k \in DOMAIN groups_name |-> Group_binary_size(heap[groups_name[k]])],
              DOMAIN groups_name)

CeilDiv(a, b) == (a + b - 1) \div b

\* Manager.parameter_blocks: AttributeError when a Group has no name yet
parameter_blocks_value ==
    IF \E k \in DOMAIN groups_id : heap[groups_id[k]].name = None
    THEN [exc |-> "AttributeError", val |-> 0]
    ELSE [exc |-> "", val |-> CeilDiv(4 + GroupsValuesSize, 512)]

parameter_blocks ==
    /\ result' = [op |-> "parameter_blocks", args |-> <<>>,
                  exc |-> parameter_blocks_value.exc,
                  val |-> parameter_blocks_value.val]
    /\ UNCHANGED <<header, groups_id, groups_name, heap>>


(***************************************************************************)
(* Writer                                                                  *)
(***************************************************************************)
\* The keyword parameters of Param.__init__ besides name
ParamKeywords == {"desc", "bytes_per_element", "dimensions", "bytes", "handle"}

\* Param(name, **kwargs): an unexpected keyword argument raises TypeError.
ParamAccepts(kwargs) == kwargs \subseteq ParamKeywords

\* What Group.add_param(name, **kwargs) raises
AddParamOutcome(kwargs) == IF ParamAccepts(kwargs) THEN "" ELSE "TypeError"

\* The keywords of the first add_param call of Writer.write (POINT:USED); every
\* add_param call of write passes data_size as well.
WriteUsedKeywords == {"desc", "data_size", "bytes"}

\* 'POINT group'
POINT_group == <<80, 79, 73, 78, 84, 32, 103, 114, 111, 117, 112>>

\* Writer.add_frames
add_frames(fs) ==
    /\ config.writer
    /\ frames' = frames \o fs
    /\ result' = Returned("add_frames", <<>>, 0)
    /\ UNCHANGED <<header, groups_id, groups_name, heap, config, handle>>
    /\ UNCHANGED outsideWriter

\* Writer.write, the whole call.  With no frame buffered it returns at once.
\* Otherwise add_group(1, 'POINT', ...) raises KeyError or adds the group, and
\* the add_param call that follows raises TypeError from Param.__init__, so
\* that no later statement (the other parameters, the header fields,
\* _write_metadata, _write_frames) runs and no byte reaches the handle.
write ==
    /\ config.writer
    /\ IF frames = <<>>
       THEN /\ result' = Returned("write", <<>>, 0)
            /\ UNCHANGED <<header, groups_id, groups_name, heap>>
       ELSE IF 1 \in DOMAIN groups_id \/ POINT \in DOMAIN groups_name
       THEN /\ result' = Raised("write", <<>>, "KeyError")
            /\ UNCHANGED <<header, groups_id, groups_name, heap>>
       ELSE /\ heap' = Append(heap, NewGroup(Upper(POINT), POINT_group))
            /\ groups_id' = DictSet(groups_id, 1, Len(heap) + 1)
            /\ groups_name' = DictSet(groups_name, Upper(POINT), Len(heap) + 1)
            /\ result' = Raised("write", <<>>, AddParamOutcome(WriteUsedKeywords))
            /\ UNCHANGED header
    /\ UNCHANGED <<config, frames, handle>>
    /\ UNCHANGED outsideWriter


(***************************************************************************)
(* The metadata store and the Writer: inputs and specification             *)
(***************************************************************************)
\* Bounds of the inputs
MaxParams == 4

MaxFrames == 2

point == <<112, 111, 105, 110, 116>>

blob == <<98, 108, 111, 98>>

GroupIdInputs == {1, 2}

GroupNameInputs == {POINT, ANALOG, point}

\* The headers a Manager is constructed with: Header(), and one declaring
\* two analog values per frame.
HeaderInputs == {[DefaultHeader EXCEPT !.analog_count = a] : a \in {0, 2}}

\* The parameters a caller adds: the scalar ones check_metadata reads, one of
\* them also with a differing value, and a 250-byte array declared by its
\* dimensions alone.
ParamInputs ==
    {[name |-> USED, p |-> NewParam(USED, <<>>, 2, <<>>, PackU16(v))] : v \in {50, 2}}
    \cup {[name |-> SCALE, p |-> NewParam(SCALE, <<>>, 4, <<>>, PackF32(RInt(-1)))]}
    \cup {[name |-> RATE, p |-> NewParam(RATE, <<>>, 4, <<>>, PackF32(RInt(60)))]}
    \cup {[name |-> DATA_START, p |-> NewParam(DATA_START, <<>>, 2, <<>>, PackU16(3))]}
    \cup {[name |-> blob, p |-> NewParam(blob, <<>>, 1, <<250>>, <<>>)]}

\* A frame is a pair (points, analog); a point is (x, y, z, error, cameras).
FrameInputs ==
    {[points |-> <<<<RInt(1), RInt(2), RInt(3), RInt(0), RInt(3)>>>>, analog |-> <<>>],
     [points |-> <<<<RInt(1), RInt(2), RInt(3), RInt(-1), RInt(0)>>>>,
      analog |-> <<RInt(7)>>]}

\* Writer() and Writer(point_scale_factor=1.)
WriterConfigs ==
    {[writer |-> TRUE, point_frame_rate |-> RInt(480), analog_frame_rate |-> RInt(0),
      point_scale_factor |-> RInt(sf), gen_scale |-> RInt(1)] : sf \in {-1, 1}}

\* A Manager that is no Writer
NoWriter ==
    [writer |-> FALSE, point_frame_rate |-> RInt(0), analog_frame_rate |-> RInt(0),
     point_scale_factor |-> RInt(0), gen_scale |-> RInt(0)]

\* No point is in the codec.
CodecIdle ==
    /\ c_scale = RInt(0)
    /\ c_origin = ""
    /\ c_point = <<>>
    /\ c_raw = <<>>
    /\ c_decoded = <<>>
    /\ c_stage = "idle"

\* A bytes object as the part that was given in full and a run of zero bytes
\* after it: the unused rest of a 512-byte block.
Buf(data, zeros) == [data |-> data, zeros |-> zeros]

NoFile == [header |-> <<>>, preamble |-> <<>>, records |-> <<>>, data |-> <<>>]

\* No Reader is in use.
ReaderIdle ==
    /\ file = NoFile
    /\ reads = <<>>
    /\ r_bytes = Buf(<<>>, 0)
    /\ r_stage = "none"
    /\ r_frames = <<>>

ParamCount ==
    SumOver([h \in 1 .. Len(heap) |-> Cardinality(DOMAIN heap[h].params)],
            1 .. Len(heap))

\* Manager(header)
Init ==
    /\ config = NoWriter
    /\ header \in HeaderInputs
    /\ groups_id = NoGroups
    /\ groups_name = NoGroups
    /\ heap = <<>>
    /\ result = Returned("init", <<>>, 0)
    /\ frames = <<>>
    /\ handle = <<>>
    /\ CodecIdle
    /\ ReaderIdle

AddGroup ==
    \E i \in GroupIdInputs, n \in GroupNameInputs :
        add_group(i, n, <<>>) /\ UNCHANGED outsideManager

AddParam ==
    \E h \in 1 .. Len(heap), in \in ParamInputs :
        /\ Upper(in.name) \in DOMAIN heap[h].params \/ ParamCount < MaxParams
        /\ add_param(h, in.name, in.p)
        /\ UNCHANGED outsideManager

CheckMetadata == check_metadata /\ UNCHANGED outsideManager

ParameterBlocks == parameter_blocks /\ UNCHANGED outsideManager

Next ==
    \/ AddGroup
    \/ AddParam
    \/ CheckMetadata
    \/ ParameterBlocks

vars == <<mvars, wvars, cvars, rvars>>

Spec == Init /\ [][Next]_vars

(***************************************************************************)
(* The Writer: a Manager with buffered frames.  Its caller may add groups  *)
(* of its own before writing.                                              *)
(***************************************************************************)
\* Writer(...)
InitWriter ==
    /\ config \in WriterConfigs
    /\ header = DefaultHeader
    /\ groups_id = NoGroups
    /\ groups_name = NoGroups
    /\ heap = <<>>
    /\ result = Returned("init", <<>>, 0)
    /\ frames = <<>>
    /\ handle = <<>>
    /\ CodecIdle
    /\ ReaderIdle

AddFrames ==
    \E f \in FrameInputs :
        /\ Len(frames) < MaxFrames
        /\ add_frames(<<f>>)

Write == write

NextWriter ==
    \/ AddGroup
    \/ CheckMetadata
    \/ ParameterBlocks
    \/ AddFrames
    \/ Write

SpecWriter == InitWriter /\ [][NextWriter]_vars


(***************************************************************************)
(* The point codec: what Writer._write_frames stores for one point of a    *)
(* frame and what Reader.read_frames makes of four stored values           *)
(***************************************************************************)
\* is_float = self.scale_factor() < 0
is_float(sf) == RLess(sf, RInt(0))

\* numpy's astype(np.uint16) of a floating value: the truncated value when it
\* is representable; otherwise C leaves the conversion undefined, and the
\* builds in use wrap, saturate or give 0.
CastU16Outcomes(r) ==
    IF RLess(RInt(-1), r) /\ RLess(r, RInt(65536)) THEN {RTrunc(r)}
    ELSE {RTrunc(r) % 65536, 0, 65535}

\* astype(np.uint8) of a floating value
CastU8Outcomes(r) ==
    IF RLess(RInt(-1), r) /\ RLess(r, RInt(256)) THEN {RTrunc(r)}
    ELSE {RTrunc(r) % 256, 0, 255}

\* a << k on uint8 operands: the result is a uint8 again
LeftShiftU8(a, k) == (a * Pow2(k)) % 256

\* bit k of c: (c & (1 << k)) >> k
Bit(c, k) == (c \div Pow2(k)) % 2

\* a | b on unsigned 16-bit operands
BitOr16(a, b) ==
    SumOver([k \in 0 .. 15 |-> Pow2(k) * Max(Bit(a, k), Bit(b, k))], 0 .. 15)

\* The bit positions the decoder counts: range(8, 17)
CameraBitPositions == 8 .. 16

\* sum((c & (1 << k)) >> k for k in range(8, 17))
CameraBits(c) ==
    SumOver([k \in CameraBitPositions |-> Bit(c, k)], CameraBitPositions)

\* A validity test that takes the value -1 alone for the mark of an invalid point
IsValidNotSentinel(fourth) == fourth # RInt(-1)

\* valid = points[:, 3] > -1, and valid = raw[:, 3] > -1
IsValid(fourth) == RLess(RInt(-1), fourth)

\* The 4th value _write_frames computes for a valid point:
\* (cameras.astype(np.uint8) << 8) | (error / scale).astype(np.uint16)
EncodedFourthOutcomes(err, cam, scale) ==
    {BitOr16(LeftShiftU8(c8, 8), e16) :
        c8 \in CastU8Outcomes(cam), e16 \in CastU16Outcomes(RDiv(err, scale))}

\* Writer._write_frames on one point, for the stored POINT:SCALE `sf` and the
\* Writer's point_scale_factor `psf`.  In integer mode array.array('i') takes
\* no float and extend raises TypeError.  In float mode the row is stored as
\* four float32: x, y, z divided by psf and the 4th value for a valid point;
\* for an invalid one -1 and what the row of `raw` held before (`stale`).
write_frames_outcomes(sf, psf, pt, stale) ==
    IF ~is_float(sf) THEN {[exc |-> "TypeError", raw |-> <<>>]}
    ELSE IF IsValid(pt[4])
    THEN {[exc |-> "",
           raw |-> <<AsFloat32(RDiv(pt[1], psf)), AsFloat32(RDiv(pt[2], psf)),
                     AsFloat32(RDiv(pt[3], psf)), AsFloat32(RInt(f))>>] :
            f \in EncodedFourthOutcomes(pt[4], pt[5], RAbs(sf))}
    ELSE {[exc |-> "",
           raw |-> <<AsFloat32(stale), AsFloat32(stale), AsFloat32(stale),
                     AsFloat32(RInt(-1))>>]}

\* c = raw[valid, 3].astype(np.uint16): from int16 it wraps, from float32 it
\* is the cast of a floating value.
FourthAsU16Outcomes(sf, fourth) ==
    IF is_float(sf) THEN CastU16Outcomes(fourth) ELSE {RTrunc(fourth) % 65536}

\* A decoder that scales the error by the signed scale factor
read_frames_point_signed_scale(sf, raw, c) ==
    <<raw[1], raw[2], raw[3],
      IF IsValid(raw[4]) THEN RMul(RInt(c % 256), sf) ELSE RInt(-1),
      IF IsValid(raw[4]) THEN RInt(CameraBits(c)) ELSE RInt(-1)>>

\* Reader.read_frames on the four stored values of one point, c being the 4th
\* as uint16: (x, y, z, error, cameras).
read_frames_point(sf, raw, c) ==
    LET scale == RAbs(sf)
        point_scale == IF is_float(sf) THEN RInt(1) ELSE scale
    IN  <<RMul(raw[1], point_scale), RMul(raw[2], point_scale),
          RMul(raw[3], point_scale),
          IF IsValid(raw[4]) THEN RMul(RInt(c % 256), scale) ELSE RInt(-1),
          IF IsValid(raw[4]) THEN RInt(CameraBits(c)) ELSE RInt(-1)>>

(***************************************************************************)
(* The point codec: inputs and specification                               *)
(***************************************************************************)
\* Bounds of the inputs: coordinates are k/2 for |k| <= MaxCoord, camera
\* counts go up to MaxCameras.
MaxCoord == 2

MaxCameras == 9

ScaleInputs == {Rat(k, 2) : k \in {-4, -2, -1, 0, 1, 2, 4}}

ErrorInputs == {Rat(k, 2) : k \in {-4, -2, -1, 0, 1, 2, 600}}

PointInputs ==
    {<<Rat(x, 2), RInt(2), RInt(3), e, RInt(cam)>> :
        x \in -MaxCoord .. MaxCoord, e \in ErrorInputs, cam \in -1 .. MaxCameras}

\* What a row of the uninitialised or reused array `raw` may hold
StaleInputs == {RInt(0), RInt(7)}

\* The low bytes of the stored 16-bit 4th values; every high byte is drawn.
LowByteInputs == {0, 1, 255}

StoredInt16Inputs ==
    {IF u >= 32768 THEN u - 65536 ELSE u :
        u \in {256 * hi + lo : hi \in 0 .. 255, lo \in LowByteInputs}}

StoredFloatInputs ==
    {Rat(k, 2) : k \in {-140000, -4, -2, -1, 0, 1, 2, 510, 512, 1023,
                        131070, 131071, 131072, 140000}}

\* The rows a file holds for a point, in integer and in float mode
StoredInputs(sf) ==
    IF is_float(sf)
    THEN {<<Rat(x, 2), RInt(20), RInt(30), f>> :
            x \in -MaxCoord .. MaxCoord, f \in StoredFloatInputs}
    ELSE {<<RInt(10), RInt(20), RInt(30), RInt(f)>> : f \in StoredInt16Inputs}

\* A point buffered in a Writer, or a row of a file; nothing else is in use.
InitCodec ==
    /\ c_scale \in ScaleInputs
    /\ \/ /\ c_origin = "writer"
          /\ c_point \in PointInputs
          /\ c_raw = <<>>
          /\ c_stage = "buffered"
       \/ /\ c_origin = "file"
          /\ c_point = <<>>
          /\ c_raw \in StoredInputs(c_scale)
          /\ c_stage = "stored"
    /\ c_decoded = <<>>
    /\ header = DefaultHeader
    /\ groups_id = NoGroups
    /\ groups_name = NoGroups
    /\ heap = <<>>
    /\ result = Returned("init", <<>>, 0)
    /\ config = NoWriter
    /\ frames = <<>>
    /\ handle = <<>>
    /\ ReaderIdle

\* _write_frames stores the buffered point, POINT:SCALE being the float32 of
\* the Writer's point_scale_factor.
WriteFramesPoint ==
    /\ c_stage = "buffered"
    /\ \E stale \in StaleInputs :
         \E out \in write_frames_outcomes(AsFloat32(c_scale), c_scale, c_point, stale) :
            /\ c_stage' = IF out.exc = "" THEN "stored" ELSE "write_failed"
            /\ c_raw' = out.raw
    /\ UNCHANGED <<c_scale, c_origin, c_point, c_decoded>>
    /\ UNCHANGED outsideCodec

\* read_frames decodes the stored row.
ReadFramesPoint ==
    /\ c_stage = "stored"
    /\ \E c \in FourthAsU16Outcomes(AsFloat32(c_scale), c_raw[4]) :
         c_decoded' = read_frames_point(AsFloat32(c_scale), c_raw, c)
    /\ c_stage' = "decoded"
    /\ UNCHANGED <<c_scale, c_origin, c_point, c_raw>>
    /\ UNCHANGED outsideCodec

NextCodec ==
    \/ WriteFramesPoint
    \/ ReadFramesPoint

SpecCodec == InitCodec /\ [][NextCodec]_vars

(***************************************************************************)
(* Reader: construction from a file                                        *)
(***************************************************************************)
\* len(b) of a bytes object
BufLen(b) == Len(b.data) + b.zeros

BufAt(b, i) == IF i <= Len(b.data) THEN b.data[i] ELSE 0

\* io.BytesIO(b) at offset pos, read(n): the bytes there are, at most n
BufRead(b, pos, n) ==
    [i \in 1 .. Max(0, Min(n, BufLen(b) - pos)) |-> BufAt(b, pos + i)]

\* b[k:], a negative k counting from the end
BufFrom(b, k) ==
    LET start == IF k < 0 THEN Max(BufLen(b) + k, 0) ELSE Min(k, BufLen(b))
    IN  Buf(SubSeq(b.data, start + 1, Len(b.data)),
            IF start <= Len(b.data) THEN b.zeros ELSE BufLen(b) - start)

\* struct.pack('<h', v)
PackI16(v) == PackU16(IF v < 0 THEN v + 65536 ELSE v)

\* Header.write: the first 24 bytes of the 512 (the rest holds no field read
\* here), with the magic byte given
Header_write(h, magic) ==
    <<h.parameter_block, magic>> \o PackU16(h.point_count)
        \o PackU16(h.analog_count) \o PackU16(h.first_frame)
        \o PackU16(h.last_frame) \o PackU16(0) \o PackF32(h.scale_factor)
        \o PackU16(h.data_block) \o PackU16(0) \o PackF32(h.frame_rate)

\* Header.read: struct.unpack(BINARY_FORMAT, handle.read(512))
Header_read(b) ==
    [parameter_block |-> b[1], magic |-> b[2],
     point_count |-> UnpackU16(SubSeq(b, 3, 4)),
     analog_count |-> UnpackU16(SubSeq(b, 5, 6)),
     first_frame |-> UnpackU16(SubSeq(b, 7, 8)),
     last_frame |-> UnpackU16(SubSeq(b, 9, 10)),
     scale_factor |-> UnpackF32(SubSeq(b, 13, 16)),
     data_block |-> UnpackU16(SubSeq(b, 17, 18)),
     frame_rate |-> UnpackF32(SubSeq(b, 21, 24))]

\* The attributes of a Header, the magic byte not being one
HeaderOf(h) ==
    [parameter_block |-> h.parameter_block, data_block |-> h.data_block,
     point_count |-> h.point_count, analog_count |-> h.analog_count,
     first_frame |-> h.first_frame, last_frame |-> h.last_frame,
     frame_rate |-> h.frame_rate, scale_factor |-> h.scale_factor]

\* Param.write: the record of a parameter of group group_id
Param_write(p, group_id) ==
    <<PackI8(Len(Utf8(p.name))), PackI8(group_id)>> \o Utf8(p.name)
        \o PackI16(Param_binary_size(p) - 2 - Len(Utf8(p.name)))
        \o <<PackI8(p.bytes_per_element), Len(p.dimensions)>> \o p.dimensions
        \o p.bytes \o <<Len(Utf8(p.desc))>> \o Utf8(p.desc)

\* Group.write, its first four writes: the header record of a group
Group_write(g, group_id) ==
    <<PackI8(Len(g.name)), PackI8(-group_id)>> \o g.name
        \o PackI16(3 + Len(g.desc)) \o <<Len(g.desc)>> \o g.desc

\* Param.read on the BytesIO of b at offset pos: struct.error when a byte to
\* unpack is not there; a short payload or description is taken as it is.
Param_read(b, pos) ==
    LET bpe  == BufRead(b, pos, 1)
        nd   == BufRead(b, pos + 1, 1)
        dims == IF nd = <<>> THEN <<>> ELSE BufRead(b, pos + 2, nd[1])
        Fail == [exc |-> "struct.error", bytes_per_element |-> 0,
                 dimensions |-> <<>>, bytes |-> <<>>, desc |-> <<>>]
    IN  IF bpe = <<>> \/ nd = <<>> \/ Len(dims) < nd[1] THEN Fail
        ELSE LET tb   == Product(dims) * Abs(UnpackI8(bpe[1]))
                 at   == pos + 2 + nd[1]
                 data == IF tb # 0 THEN BufRead(b, at, tb) ELSE <<>>
                 size == BufRead(b, at + Len(data), 1)
             IN  IF size = <<>> THEN Fail
                 ELSE [exc |-> "", bytes_per_element |-> UnpackI8(bpe[1]),
                       dimensions |-> dims, bytes |-> data,
                       desc |-> IF size[1] # 0
                                THEN BufRead(b, at + Len(data) + 1, size[1])
                                ELSE <<>>]

\* self.groups with the objects it refers to
Store(gid, gname, hp) == [groups_id |-> gid, groups_name |-> gname, heap |-> hp]

EmptyStore == Store(NoGroups, NoGroups, <<>>)

\* One pass of the loop of Reader.__init__ over the directory b, on store st:
\* the store and the directory after it, and whether the loop goes on
\* ("next"), has met the end of the section ("break") or an exception.
scan_record(st, b) ==
    LET head   == BufRead(b, 0, 2)
        chars  == UnpackI8(head[1])
        gid    == UnpackI8(head[2])
        raw    == BufRead(b, 2, Abs(chars))
        name   == Upper(raw)
        off    == BufRead(b, 2 + Len(raw), 2)
        offset == UnpackI16(off)
        at     == 2 + Len(raw) + 2
        rest   == BufFrom(b, 2 + Abs(chars) + offset)
        Out(status, exc, store, bytes) ==
            [status |-> status, exc |-> exc, store |-> store, bytes |-> bytes]
    IN  IF Len(head) < 2 THEN Out("raise", "struct.error", st, b)
        ELSE IF gid = 0 \/ chars = 0 THEN Out("break", "", st, b)
        ELSE IF Len(off) < 2 THEN Out("raise", "struct.error", st, b)
        ELSE IF gid > 0
        THEN \* self.groups.setdefault(group_id, Group()).add_param(name, handle=buf)
             LET known == gid \in DOMAIN st.groups_id
                 h     == IF known THEN st.groups_id[gid] ELSE Len(st.heap) + 1
                 hp    == IF known THEN st.heap
                          ELSE Append(st.heap, NewGroup(None, None))
                 st1   == Store(DictSet(st.groups_id, gid, h), st.groups_name, hp)
                 p     == Param_read(b, at)
             IN  IF p.exc # "" THEN Out("raise", p.exc, st1, b)
                 ELSE Out("next", "",
                          [st1 EXCEPT !.heap[h] =
                              Group_add_param(hp[h], name,
                                  NewParam(name, p.desc, p.bytes_per_element,
                                           p.dimensions, p.bytes))],
                          rest)
        ELSE LET group_id == Abs(gid)
                 size == BufRead(b, at, 1)
                 desc == IF size # <<>> /\ size[1] # 0
                         THEN BufRead(b, at + 1, size[1]) ELSE <<>>
             IN  IF size = <<>> THEN Out("raise", "struct.error", st, b)
                 ELSE IF group_id \in DOMAIN st.groups_id
                 THEN \* group.name = name; group.desc = desc; self.groups[name] = group
                      LET h == st.groups_id[group_id]
                      IN  Out("next", "",
                              Store(st.groups_id,
                                    DictSet(st.groups_name, name, h),
                                    [st.heap EXCEPT ![h].name = name,
                                                    ![h].desc = desc]),
                              rest)
                 ELSE \* self.add_group(group_id, name, desc)
                      IF name \in DOMAIN st.groups_name
                      THEN Out("raise", "KeyError", st, b)
                      ELSE Out("next", "",
                               Store(DictSet(st.groups_id, group_id, Len(st.heap) + 1),
                                     DictSet(st.groups_name, name, Len(st.heap) + 1),
                                     Append(st.heap, NewGroup(name, desc))),
                               rest)

\* The bytes of a sequence of byte strings, one after the other
RECURSIVE Flatten(_)
Flatten(ss) == IF ss = <<>> THEN <<>> ELSE Head(ss) \o Flatten(Tail(ss))

\* The value of PROCESSOR_INTEL
PROCESSOR_INTEL == 84

\* The bytes handle.read(n) returns after the 4 bytes at the start of the
\* parameter section: the directory, the zero bytes that fill its block, then
\* the frame data; a negative n reads to the end of the file.
ReadDirectory(f, n) ==
    LET directory == Flatten(f.records)
    IN  IF n >= 0 /\ n <= 508
        THEN Buf(SubSeq(directory, 1, Min(n, Len(directory))),
                 Max(0, n - Len(directory)))
        ELSE LET all == directory \o [i \in 1 .. 508 - Len(directory) |-> 0]
                          \o f.data
             IN  Buf(SubSeq(all, 1, IF n < 0 THEN Len(all) ELSE Min(n, Len(all))), 0)

\* Reader.__init__ up to the loop, with the processor test after the read of
\* the directory
reader_open_reading_first(f) ==
    LET h == Header_read(f.header)
        pblocks == f.preamble[3]
        processor == f.preamble[4]
    IN  IF h.magic # 80
        THEN [exc |-> "AssertionError", header |-> HeaderOf(h), reads |-> <<512>>,
              bytes |-> Buf(<<>>, 0)]
        ELSE [exc |-> IF processor # PROCESSOR_INTEL THEN "ValueError" ELSE "",
              header |-> HeaderOf(h),
              reads |-> <<512, 4, 512 * pblocks - 4>>,
              bytes |-> ReadDirectory(f, 512 * pblocks - 4)]

\* Reader.__init__ up to the loop: Header(handle), the 4 bytes that open the
\* parameter section, the processor test, the read of the directory
reader_open(f) ==
    LET h == Header_read(f.header)
        pblocks == f.preamble[3]
        processor == f.preamble[4]
    IN  IF h.magic # 80
        THEN [exc |-> "AssertionError", header |-> HeaderOf(h), reads |-> <<512>>,
              bytes |-> Buf(<<>>, 0)]
        ELSE IF processor # PROCESSOR_INTEL
        THEN [exc |-> "ValueError", header |-> HeaderOf(h), reads |-> <<512, 4>>,
              bytes |-> Buf(<<>>, 0)]
        ELSE [exc |-> "", header |-> HeaderOf(h),
              reads |-> <<512, 4, 512 * pblocks - 4>>,
              bytes |-> ReadDirectory(f, 512 * pblocks - 4)]

(***************************************************************************)
(* Reader.read_frames                                                      *)
(***************************************************************************)
ACTUAL_START_FIELD ==
    <<65, 67, 84, 85, 65, 76, 95, 83, 84, 65, 82, 84, 95, 70, 73, 69, 76, 68>>

ACTUAL_END_FIELD ==
    <<65, 67, 84, 85, 65, 76, 95, 69, 78, 68, 95, 70, 73, 69, 76, 68>>

\* Manager.first_frame and Manager.last_frame: the TRIAL parameter when there
\* is one, else the header's field
FrameField(param, field) ==
    IF ~HasParam(TRIAL, param) THEN [exc |-> "", val |-> field]
    ELSE IF Len(GetParam(TRIAL, param).bytes) # 4
         THEN [exc |-> "struct.error", val |-> 0]
    ELSE [exc |-> "", val |-> UnpackI32(GetParam(TRIAL, param).bytes)]

first_frame == FrameField(ACTUAL_START_FIELD, header.first_frame)

last_frame == FrameField(ACTUAL_END_FIELD, header.last_frame)

\* np.fromfile(handle, dtype, count) at offset pos of the frame data: the
\* whole items that are there, at most count; int16 or float32 items
FromFile(data, pos, float, count) ==
    LET w == IF float THEN 4 ELSE 2
        n == Min(count, Max(0, (Len(data) - pos) \div w))
    IN  [i \in 1 .. n |->
            LET b == SubSeq(data, pos + (i - 1) * w + 1, pos + i * w)
            IN  IF float THEN UnpackF32(b) ELSE RInt(UnpackI16(b))]

\* The sequences that take their i-th element from the i-th set
RECURSIVE Choices(_)
Choices(sets) ==
    IF sets = <<>> THEN {<<>>}
    ELSE {<<x>> \o rest : x \in Head(sets), rest \in Choices(Tail(sets))}

\* The `points` a frame of raw items decodes to, row by row
DecodedPoints(sf, raw, ppf) ==
    Choices([i \in 1 .. ppf |->
        LET row == SubSeq(raw, 4 * i - 3, 4 * i)
        IN  {read_frames_point(sf, row, c) : c \in FourthAsU16Outcomes(sf, row[4])}])

OFFSET == <<79, 70, 70, 83, 69, 84>>

GEN_SCALE == <<71, 69, 78, 95, 83, 67, 65, 76, 69>>

\* Param._as_array(fmt)[:apf] of a parameter of one dimension, fmt holding
\* `width` bytes an item: the assert on the dimensions, fromstring (ValueError
\* unless the bytes are whole items), reshape (ValueError unless the items
\* fill the shape), then the slice; each item as its bytes
ArrayPrefix(p, width, apf) ==
    IF p.dimensions = <<>> THEN [exc |-> "AssertionError", val |-> <<>>]
    ELSE IF Len(p.bytes) % width # 0
            \/ Len(p.bytes) \div width # Product(p.dimensions)
    THEN [exc |-> "ValueError", val |-> <<>>]
    ELSE [exc |-> "",
          val |-> [i \in 1 .. Min(apf, Len(p.bytes) \div width) |->
                      SubSeq(p.bytes, width * (i - 1) + 1, width * i)]]

\* offsets, scales and gen_scale as read_frames sets them up before its loop
analog_calibration ==
    LET apf == analog_per_frame.val
        int16_array == ArrayPrefix(GetParam(ANALOG, OFFSET), 2, apf)
        float_array == ArrayPrefix(GetParam(ANALOG, SCALE), 4, apf)
        offsets == IF HasParam(ANALOG, OFFSET)
                   THEN [exc |-> int16_array.exc,
                         val |-> [i \in 1 .. Len(int16_array.val) |->
                                     RInt(UnpackI16(int16_array.val[i]))]]
                   ELSE [exc |-> "", val |-> [i \in 1 .. apf |-> RInt(0)]]
        scales  == IF HasParam(ANALOG, SCALE)
                   THEN [exc |-> float_array.exc,
                         val |-> [i \in 1 .. Len(float_array.val) |->
                                     UnpackF32(float_array.val[i])]]
                   ELSE [exc |-> "", val |-> [i \in 1 .. apf |-> RInt(1)]]
        gen     == IF HasParam(ANALOG, GEN_SCALE) THEN get_float(ANALOG, GEN_SCALE)
                   ELSE [exc |-> "", val |-> RInt(1)]
    IN  [exc |-> IF offsets.exc # "" THEN offsets.exc
                 ELSE IF scales.exc # "" THEN scales.exc ELSE gen.exc,
         offsets |-> offsets.val, scales |-> scales.val, gen_scale |-> gen.val]

\* numpy broadcasting of rows of w items with an array of shape (n,): whether
\* the shapes agree, the items a row of the result holds, and the item of the
\* array that meets column c
BroadcastOk(w, n) == w = n \/ w = 1 \/ n = 1

BroadcastWidth(w, n) == IF w = 1 THEN n ELSE w

BroadcastAt(a, c) == IF Len(a) = 1 THEN a[1] ELSE a[c]

\* (raw.astype(float) - offsets) * scales * gen_scale on the rows of apf items
\* of raw, the rows of the result one after the other
Calibrated(raw, apf, cal) ==
    LET w1 == BroadcastWidth(apf, Len(cal.offsets))
        w2 == BroadcastWidth(w1, Len(cal.scales))
        rows == Len(raw) \div apf
    IN  IF ~BroadcastOk(apf, Len(cal.offsets)) \/ ~BroadcastOk(w1, Len(cal.scales))
        THEN [exc |-> "ValueError", val |-> <<>>]
        ELSE [exc |-> "",
              val |-> [i \in 1 .. rows * w2 |->
                  LET r == (i - 1) \div w2
                      c == ((i - 1) % w2) + 1
                  IN  RMul(RMul(RSub(raw[r * apf + (IF apf = 1 THEN 1 ELSE c)],
                                     BroadcastAt(cal.offsets, c)),
                                BroadcastAt(cal.scales, c)),
                           cal.gen_scale)]]

\* The frames read_frames yields from frame_no on, the data being read from
\* offset pos, and the exception that ends it: reshape raises ValueError when
\* the items read do not fill its shape, and so does the arithmetic on
\* operands whose shapes do not agree.  No file drawn here holds
\* ANALOG:FORMAT, so that analog items are read as int16 or float32.
RECURSIVE FramesFrom(_, _, _, _)
FramesFrom(data, pos, frame_no, last) ==
    IF frame_no > last THEN {[frames |-> <<>>, exc |-> ""]}
    ELSE LET sf   == scale_factor.val
             ppf  == points_per_frame.val
             apf  == analog_per_frame.val
             w    == IF is_float(sf) THEN 4 ELSE 2
             raw  == FromFile(data, pos, is_float(sf), 4 * header.point_count)
             pos2 == pos + w * Len(raw)
             araw == IF header.analog_count > 0
                     THEN FromFile(data, pos2, is_float(sf), header.analog_count)
                     ELSE <<>>
             pos3 == pos2 + w * Len(araw)
         IN  IF Len(raw) # 4 * ppf
                \/ (header.analog_count > 0
                    /\ (apf = 0 \/ (Len(araw) > 0 /\ Len(araw) % apf # 0)))
             THEN {[frames |-> <<>>, exc |-> "ValueError"]}
             ELSE IF header.analog_count > 0
                     /\ Calibrated(araw, apf, analog_calibration).exc # ""
             THEN {[frames |-> <<>>, exc |-> "ValueError"]}
             ELSE {[frames |-> <<[frame_no |-> frame_no, points |-> pts,
                                  analog |-> IF header.analog_count > 0
                                             THEN Calibrated(araw, apf,
                                                      analog_calibration).val
                                             ELSE <<>>]>> \o later.frames,
                    exc |-> later.exc] :
                     pts \in DecodedPoints(sf, raw, ppf),
                     later \in FramesFrom(data, pos3, frame_no + 1, last)}

\* Reader.read_frames, run to its end, on the frame data at header.data_block
read_frames_outcomes(data) ==
    IF analog_calibration.exc # ""
    THEN {[frames |-> <<>>, exc |-> analog_calibration.exc]}
    ELSE IF first_frame.exc # "" THEN {[frames |-> <<>>, exc |-> first_frame.exc]}
    ELSE IF last_frame.exc # "" THEN {[frames |-> <<>>, exc |-> last_frame.exc]}
    ELSE FramesFrom(data, 0, first_frame.val, last_frame.val)

(***************************************************************************)
(* Reader: inputs and specification                                        *)
(***************************************************************************)
\* The records of a directory besides those of its POINT group are at most
\* MaxExtra.
MaxExtra == 1

mark == <<109, 97, 114, 107>>

pd == <<112, 100>>

\* Header records: POINT (named in lower case) as group 1, POINT again and
\* ANALOG as group 2, another name for group 1
GroupRecords ==
    {Group_write(NewGroup(point, pd), 1), Group_write(NewGroup(POINT, <<>>), 2),
     Group_write(NewGroup(ANALOG, pd), 2), Group_write(NewGroup(mark, <<>>), 1)}

\* Parameter records besides the four of the POINT group
ParamRecords ==
    {Param_write(NewParam(USED, <<>>, 2, <<>>, PackU16(9)), 1),
     Param_write(NewParam(LABELS, pd, -1, <<2, 1>>, <<97, 98>>), 1),
     Param_write(NewParam(USED, <<>>, 2, <<>>, PackU16(0)), 2)}

\* USED, SCALE, RATE and DATA_START of group 1, as the header has them
PointRecords(h) ==
    <<Param_write(NewParam(USED, <<>>, 2, <<>>, PackU16(h.point_count)), 1),
      Param_write(NewParam(SCALE, <<>>, 4, <<>>, PackF32(h.scale_factor)), 1),
      Param_write(NewParam(RATE, pd, 4, <<>>, PackF32(h.frame_rate)), 1),
      Param_write(NewParam(DATA_START, <<>>, 2, <<>>, PackU16(h.data_block)), 1)>>

\* The POINT group with its header record first, between its parameters and
\* after them
PointGroupInputs(h) ==
    LET g == Group_write(NewGroup(point, pd), 1)
        ps == PointRecords(h)
    IN  {<<g>> \o ps, SubSeq(ps, 1, 2) \o <<g>> \o SubSeq(ps, 3, 4), ps \o <<g>>}

\* The record rec with another offset to the next record
WithOffset(rec, offset) ==
    LET at == 2 + rec[1]
    IN  SubSeq(rec, 1, at) \o PackI16(offset) \o SubSeq(rec, at + 3, Len(rec))

\* Records a writer of the format need not have made: a parameter followed by
\* two bytes its offset skips; one whose offset points back before its own
\* start, and one whose offset points at its own start (2 + 4 + offset is -4
\* and 0); and the two bytes that end a directory
OddRecords ==
    LET rec == Param_write(NewParam(USED, <<>>, 2, <<>>, PackU16(0)), 2)
    IN  {WithOffset(rec, UnpackI16(SubSeq(rec, 7, 8)) + 2) \o <<7, 7>>,
         WithOffset(rec, -10), WithOffset(rec, -6), <<0, 0>>}

ShortDirectories(n) ==
    UNION {[1 .. k -> GroupRecords \cup ParamRecords \cup OddRecords] : k \in 0 .. n}

DirectoryInputs(h) ==
    ShortDirectories(MaxExtra)
    \cup {pre \o g \o post : g \in PointGroupInputs(h),
            pre \in ShortDirectories(MaxExtra), post \in ShortDirectories(MaxExtra)}

\* Two frames of one point, a valid one and an invalid one
FrameData(sf) ==
    IF is_float(sf)
    THEN PackF32(RInt(1)) \o PackF32(RInt(2)) \o PackF32(RInt(3)) \o PackF32(RInt(0))
           \o PackF32(RInt(1)) \o PackF32(RInt(2)) \o PackF32(RInt(3))
           \o PackF32(RInt(-1))
    ELSE PackI16(10) \o PackI16(20) \o PackI16(30) \o PackI16(257)
           \o PackI16(10) \o PackI16(20) \o PackI16(30) \o PackI16(-1)

ReaderHeaderInputs ==
    {[DefaultHeader EXCEPT !.point_count = 1, !.last_frame = 2,
                           !.scale_factor = RInt(sf)] : sf \in {-1, 1}}

\* Files with their parameter section in block 2, of one block, and their
\* frame data in block 3
FilesOf(h) ==
    {[header |-> Header_write(h, magic), preamble |-> <<0, 0, 1, processor>>,
      records |-> d, data |-> FrameData(h.scale_factor)] :
        magic \in {80, 0}, processor \in {84, 85},
        d \in {x \in DirectoryInputs(h) : Len(x) <= 4 + 1 + MaxExtra}}

FileInputs == UNION {FilesOf(h) : h \in ReaderHeaderInputs}

\* A file, and no Reader yet
InitReader ==
    /\ file \in FileInputs
    /\ reads = <<>>
    /\ r_bytes = Buf(<<>>, 0)
    /\ r_stage = "closed"
    /\ r_frames = <<>>
    /\ header = DefaultHeader
    /\ groups_id = NoGroups
    /\ groups_name = NoGroups
    /\ heap = <<>>
    /\ result = Returned("init", <<>>, 0)
    /\ config = NoWriter
    /\ frames = <<>>
    /\ handle = <<>>
    /\ CodecIdle

\* Reader(handle), up to the loop over the directory
ReaderOpen ==
    /\ r_stage = "closed"
    /\ LET o == reader_open(file)
       IN  /\ header' = o.header
           /\ reads' = o.reads
           /\ r_bytes' = o.bytes
           /\ r_stage' = IF o.exc = "" THEN "scanning" ELSE "failed"
           /\ result' = IF o.exc = "" THEN result
                        ELSE Raised(IF o.exc = "AssertionError" THEN "Header"
                                    ELSE "Reader", <<>>, o.exc)
    /\ UNCHANGED <<groups_id, groups_name, heap, file, r_frames>>
    /\ UNCHANGED outsideReader

\* `while bytes:` and one pass of the loop
ScanRecord ==
    /\ r_stage = "scanning"
    /\ IF BufLen(r_bytes) = 0
       THEN /\ r_stage' = "checking"
            /\ UNCHANGED <<groups_id, groups_name, heap, r_bytes, result>>
       ELSE LET o == scan_record(Store(groups_id, groups_name, heap), r_bytes)
            IN  /\ groups_id' = o.store.groups_id
                /\ groups_name' = o.store.groups_name
                /\ heap' = o.store.heap
                /\ r_bytes' = o.bytes
                /\ r_stage' = CASE o.status = "next" -> "scanning"
                                [] o.status = "break" -> "checking"
                                [] OTHER -> "failed"
                /\ result' = IF o.status = "raise"
                             THEN Raised("Reader", <<>>, o.exc) ELSE result
    /\ UNCHANGED <<header, file, reads, r_frames>>
    /\ UNCHANGED outsideReader

\* self.check_metadata(), which ends Reader.__init__
ReaderCheck ==
    /\ r_stage = "checking"
    /\ r_stage' = IF check_metadata_outcome.exc = "" THEN "ready" ELSE "failed"
    /\ result' = IF check_metadata_outcome.exc = "" THEN Returned("Reader", <<>>, 0)
                  ELSE Raised("check_metadata", <<>>, check_metadata_outcome.exc)
    /\ UNCHANGED <<header, groups_id, groups_name, heap>>
    /\ UNCHANGED <<file, reads, r_bytes, r_frames>>
    /\ UNCHANGED outsideReader

\* list(reader.read_frames())
ReadFrames ==
    /\ r_stage = "ready"
    /\ \E o \in read_frames_outcomes(file.data) :
         /\ r_frames' = o.frames
         /\ result' = Raised("read_frames", <<>>, o.exc)
    /\ UNCHANGED <<header, groups_id, groups_name, heap>>
    /\ UNCHANGED <<file, reads, r_bytes, r_stage>>
    /\ UNCHANGED outsideReader

NextReader ==
    \/ ReaderOpen
    \/ ScanRecord
    \/ ReaderCheck
    \/ ReadFrames

SpecReader == InitReader /\ [][NextReader]_vars

(***************************************************************************)
(* check_metadata on the stores a file or a caller can set up: inputs and  *)
(* specification                                                           *)
(***************************************************************************)
CheckHeaderInputs ==
    {[DefaultHeader EXCEPT !.point_count = pc, !.scale_factor = RInt(sf),
                           !.frame_rate = RInt(fr), !.analog_count = ac,
                           !.data_block = db] :
        pc \in {50, 2}, sf \in {-1, 1}, fr \in {60, 0}, ac \in {0, 2, 4},
        db \in {3, 4}}

\* For each parameter the check reads: absent, or one of a few payloads (a
\* one-byte POINT:USED is not a uint16).
UsedOptions ==
    {{}} \cup {{NewParam(USED, <<>>, 2, <<>>, PackU16(v))} : v \in {50, 2}}
         \cup {{NewParam(USED, <<>>, 1, <<>>, <<50>>)}}

ScaleOptions ==
    {{}} \cup {{NewParam(SCALE, <<>>, 4, <<>>, PackF32(RInt(v)))} : v \in {-1, 1}}

RateOptions ==
    {{}} \cup {{NewParam(RATE, <<>>, 4, <<>>, PackF32(RInt(v)))} : v \in {60, 0}}

DataStartOptions ==
    {{}} \cup {{NewParam(DATA_START, <<>>, 2, <<>>, PackU16(v))} : v \in {3, 4}}

LabelsOptions ==
    {{}, {NewParam(LABELS, <<>>, -1, <<2, 1>>, <<97, 98>>)}}

\* What the ANALOG group holds
AnalogOptions ==
    {{},
     {NewParam(USED, <<>>, 2, <<>>, PackU16(2))},
     {NewParam(RATE, <<>>, 4, <<>>, PackF32(RInt(60)))},
     {NewParam(USED, <<>>, 2, <<>>, PackU16(2)),
      NewParam(RATE, <<>>, 4, <<>>, PackF32(RInt(60)))},
     {NewParam(USED, <<>>, 2, <<>>, PackU16(2)),
      NewParam(RATE, <<>>, 4, <<>>, PackF32(RInt(120)))}}

\* Group.params after add_param of each Param of ps
ParamsOf(ps) ==
    [n \in {p.name : p \in ps} |-> CHOOSE p \in ps : p.name = n]

\* A Manager after add_group(1, 'POINT', '') and, when hasAnalog,
\* add_group(2, 'ANALOG', ''), and add_param of the chosen parameters; or an
\* empty one.
InitCheck ==
    /\ header \in CheckHeaderInputs
    /\ \/ /\ heap = <<>>
          /\ groups_id = NoGroups
          /\ groups_name = NoGroups
       \/ \E u \in UsedOptions, sc \in ScaleOptions, r \in RateOptions,
             d \in DataStartOptions, l \in LabelsOptions :
            LET pg == [NewGroup(POINT, <<>>) EXCEPT
                          !.params = ParamsOf(u \cup sc \cup r \cup d \cup l)]
            IN  \/ /\ heap = <<pg>>
                   /\ groups_id = DictSet(NoGroups, 1, 1)
                   /\ groups_name = DictSet(NoGroups, POINT, 1)
                \/ \E a \in AnalogOptions :
                     /\ heap = <<pg, [NewGroup(ANALOG, <<>>) EXCEPT
                                         !.params = ParamsOf(a)]>>
                     /\ groups_id = DictSet(DictSet(NoGroups, 1, 1), 2, 2)
                     /\ groups_name = DictSet(DictSet(NoGroups, POINT, 1), ANALOG, 2)
    /\ result = Returned("init", <<>>, 0)
    /\ config = NoWriter
    /\ frames = <<>>
    /\ handle = <<>>
    /\ CodecIdle
    /\ ReaderIdle

NextCheck == CheckMetadata

SpecCheck == InitCheck /\ [][NextCheck]_vars

(***************************************************************************)
(* The Reader on files with analog channels and their calibration: inputs  *)
(* and specification                                                       *)
(***************************************************************************)
\* No point, two frames, 1 or 2 analog values a frame
AnalogHeaderInputs ==
    {[DefaultHeader EXCEPT !.point_count = 0, !.last_frame = 2,
                           !.analog_count = a, !.scale_factor = RInt(sf)] :
        a \in {1, 2}, sf \in {-1, 1}}

\* The group POINT with the four parameters the check reads
AnalogPointRecords(h) == <<Group_write(NewGroup(POINT, <<>>), 1)>> \o PointRecords(h)

\* The group ANALOG with one value a channel (RATE is the frame rate)
AnalogUsedRecords(h) ==
    <<Group_write(NewGroup(ANALOG, <<>>), 2),
      Param_write(NewParam(USED, <<>>, 2, <<>>, PackU16(h.analog_count)), 2),
      Param_write(NewParam(RATE, <<>>, 4, <<>>, PackF32(h.frame_rate)), 2)>>

\* ANALOG:OFFSET: absent, of length 0 (as Writer.write adds it), 1 and 2
OffsetRecords ==
    {<<>>,
     <<Param_write(NewParam(OFFSET, <<>>, 2, <<0>>, <<>>), 2)>>,
     <<Param_write(NewParam(OFFSET, <<>>, 2, <<1>>, PackI16(1)), 2)>>,
     <<Param_write(NewParam(OFFSET, <<>>, 2, <<2>>, PackI16(1) \o PackI16(-2)), 2)>>}

\* ANALOG:SCALE: absent, of length 0 (as Writer.write adds it), 1 and 2
ScaleRecords ==
    {<<>>,
     <<Param_write(NewParam(SCALE, <<>>, 4, <<0>>, <<>>), 2)>>,
     <<Param_write(NewParam(SCALE, <<>>, 4, <<1>>, PackF32(RInt(2))), 2)>>,
     <<Param_write(NewParam(SCALE, <<>>, 4, <<2>>,
                            PackF32(RInt(2)) \o PackF32(Rat(1, 2))), 2)>>}

\* ANALOG:GEN_SCALE: absent, or 2
GenScaleRecords ==
    {<<>>, <<Param_write(NewParam(GEN_SCALE, <<>>, 4, <<>>, PackF32(RInt(2))), 2)>>}

\* Two frames of analog values alone
AnalogData(h) ==
    LET Item(v) == IF is_float(h.scale_factor) THEN PackF32(RInt(v)) ELSE PackI16(v)
        values == IF h.analog_count = 1 THEN <<5, -9>> ELSE <<5, 7, -9, 11>>
    IN  Flatten([i \in 1 .. Len(values) |-> Item(values[i])])

AnalogFilesOf(h) ==
    {[header |-> Header_write(h, 80), preamble |-> <<0, 0, 1, PROCESSOR_INTEL>>,
      records |-> AnalogPointRecords(h) \o AnalogUsedRecords(h) \o o \o sc \o g,
      data |-> AnalogData(h)] :
        o \in OffsetRecords, sc \in ScaleRecords, g \in GenScaleRecords}

AnalogFileInputs == UNION {AnalogFilesOf(h) : h \in AnalogHeaderInputs}

\* A file, and no Reader yet
InitAnalog ==
    /\ file \in AnalogFileInputs
    /\ reads = <<>>
    /\ r_bytes = Buf(<<>>, 0)
    /\ r_stage = "closed"
    /\ r_frames = <<>>
    /\ header = DefaultHeader
    /\ groups_id = NoGroups
    /\ groups_name = NoGroups
    /\ heap = <<>>
    /\ result = Returned("init", <<>>, 0)
    /\ config = NoWriter
    /\ frames = <<>>
    /\ handle = <<>>
    /\ CodecIdle

SpecAnalog == InitAnalog /\ [][NextReader]_vars

(***************************************************************************)
(* Writer.write and Writer._write_metadata on the stores a caller can set  *)
(* up: inputs and specification                                            *)
(***************************************************************************)
\* Header.write: the 512 bytes of the header block (no field after the frame
\* rate is set to anything but 0 here)
Header_block(h) == Header_write(h, 80) \o [i \in 1 .. 512 - 24 |-> 0]

\* handle.seek(0); handle.write(block)
WriteAtStart(h, block) == block \o SubSeq(h, Len(block) + 1, Len(h))

\* A _write_metadata that writes the header block before it checks
Writer_write_metadata_header_first ==
    /\ config.writer
    /\ handle' = WriteAtStart(handle, Header_block(header))
    /\ result' = Raised("_write_metadata", <<>>,
                        IF check_metadata_outcome.exc # ""
                        THEN check_metadata_outcome.exc ELSE "AttributeError")
    /\ UNCHANGED <<header, groups_id, groups_name, heap, config, frames>>
    /\ UNCHANGED outsideWriter

\* Writer._write_metadata, the whole call: check_metadata, then header.write,
\* then self._pad_block(), which reads self._handle, an attribute a Writer
\* does not have (AttributeError); the directory is not reached.
Writer_write_metadata ==
    /\ config.writer
    /\ IF check_metadata_outcome.exc # ""
       THEN /\ result' = Raised("_write_metadata", <<>>, check_metadata_outcome.exc)
            /\ UNCHANGED handle
       ELSE /\ handle' = WriteAtStart(handle, Header_block(header))
            /\ result' = Raised("_write_metadata", <<>>, "AttributeError")
    /\ UNCHANGED <<header, groups_id, groups_name, heap, config, frames>>
    /\ UNCHANGED outsideWriter

CommitHeaderInputs == {[DefaultHeader EXCEPT !.point_count = pc] : pc \in {50, 2}}

\* A Writer whose caller has set header.point_count and has added nothing, or
\* the group POINT with the chosen parameters
InitCommit ==
    /\ config \in WriterConfigs
    /\ header \in CommitHeaderInputs
    /\ \/ /\ heap = <<>>
          /\ groups_id = NoGroups
          /\ groups_name = NoGroups
       \/ \E u \in UsedOptions, sc \in ScaleOptions, r \in RateOptions,
             d \in DataStartOptions :
            /\ heap = <<[NewGroup(POINT, <<>>) EXCEPT
                            !.params = ParamsOf(u \cup sc \cup r \cup d)]>>
            /\ groups_id = DictSet(NoGroups, 1, 1)
            /\ groups_name = DictSet(NoGroups, POINT, 1)
    /\ result = Returned("init", <<>>, 0)
    /\ frames = <<>>
    /\ handle = <<>>
    /\ CodecIdle
    /\ ReaderIdle

WriteMetadata == Writer_write_metadata

NextCommit ==
    \/ AddFrames
    \/ Write
    \/ WriteMetadata

SpecCommit == InitCommit /\ [][NextCommit]_vars

(***************************************************************************)
(* Writer._write_frames: inputs and specification                          *)
(***************************************************************************)
\* raw = np.empty((ppf, 4)): rows of whatever the memory held
UninitialisedRows(ppf) ==
    Choices([i \in 1 .. ppf |->
        {<<AsFloat32(s), AsFloat32(s), AsFloat32(s), AsFloat32(s)>> : s \in StaleInputs}])

\* The rows of raw once a frame's points are stored in it, in float mode: the
\* row of an invalid point keeps its first three values and gets -1
FrameRows(sf, psf, points, prev) ==
    Choices([i \in 1 .. Len(points) |->
        IF IsValid(points[i][4])
        THEN {o.raw : o \in write_frames_outcomes(sf, psf, points[i], RInt(0))}
        ELSE {<<prev[i][1], prev[i][2], prev[i][3], AsFloat32(RInt(-1))>>}])

\* point.tofile(handle) of an array.array('f') holding these rows
RowsToFile(rows) ==
    Flatten([i \in 1 .. Len(rows) |->
        PackF32(rows[i][1]) \o PackF32(rows[i][2]) \o PackF32(rows[i][3])
            \o PackF32(rows[i][4])])

\* The loop of _write_frames over the frames fs and the call of _pad_block after
\* it: the bytes written and the exception that ends the call.  A frame whose
\* points are not ppf rows does not fit the mask (IndexError); in integer mode
\* array.array('i').extend takes no float (TypeError); the name `analog` is
\* bound to a new, empty array before it is extended by itself, so that no
\* analog value is written; _pad_block reads self._handle, which a Writer
\* does not have (AttributeError).
RECURSIVE FramesWritten(_, _, _, _, _)
FramesWritten(sf, psf, ppf, fs, prev) ==
    IF fs = <<>> THEN {[exc |-> "AttributeError", bytes |-> <<>>]}
    ELSE IF Len(Head(fs).points) # ppf THEN {[exc |-> "IndexError", bytes |-> <<>>]}
    ELSE IF ~is_float(sf) /\ ppf > 0 THEN {[exc |-> "TypeError", bytes |-> <<>>]}
    ELSE UNION {{[exc |-> later.exc, bytes |-> RowsToFile(rows) \o later.bytes] :
                    later \in FramesWritten(sf, psf, ppf, Tail(fs), rows)} :
                rows \in FrameRows(sf, psf, Head(fs).points, prev)}

\* Writer._write_frames, the whole call, on a handle positioned at its end
Writer_write_frames ==
    /\ config.writer
    /\ IF Len(handle) # 512 * (header.data_block - 1)
       THEN /\ result' = Raised("_write_frames", <<>>, "AssertionError")
            /\ UNCHANGED handle
       ELSE IF scale_factor.exc # ""
       THEN /\ result' = Raised("_write_frames", <<>>, scale_factor.exc)
            /\ UNCHANGED handle
       ELSE IF points_per_frame.exc # ""
       THEN /\ result' = Raised("_write_frames", <<>>, points_per_frame.exc)
            /\ UNCHANGED handle
       ELSE \E prev \in UninitialisedRows(points_per_frame.val) :
              \E o \in FramesWritten(scale_factor.val, config.point_scale_factor,
                                     points_per_frame.val, frames, prev) :
                /\ handle' = handle \o o.bytes
                /\ result' = Raised("_write_frames", <<>>, o.exc)
    /\ UNCHANGED <<header, groups_id, groups_name, heap, config, frames>>
    /\ UNCHANGED outsideWriter

\* The frame data begin in block 1 (so that an empty handle is in position) or 3
FramesHeaderInputs == {[DefaultHeader EXCEPT !.data_block = db] : db \in {1, 3}}

\* A Writer whose caller has set header.data_block and has added the group
\* POINT with USED (1 or 2) and, for some, SCALE
InitFrames ==
    /\ config \in WriterConfigs
    /\ header \in FramesHeaderInputs
    /\ \E n \in {1, 2}, sc \in ScaleOptions :
         heap = <<[NewGroup(POINT, <<>>) EXCEPT
                      !.params = ParamsOf({NewParam(USED, <<>>, 2, <<>>, PackU16(n))}
                                          \cup sc)]>>
    /\ groups_id = DictSet(NoGroups, 1, 1)
    /\ groups_name = DictSet(NoGroups, POINT, 1)
    /\ result = Returned("init", <<>>, 0)
    /\ frames = <<>>
    /\ handle = <<>>
    /\ CodecIdle
    /\ ReaderIdle

WriteFrames == Writer_write_frames

NextFrames ==
    \/ AddFrames
    \/ WriteFrames

SpecFrames == InitFrames /\ [][NextFrames]_vars

(***************************************************************************)
(* Group.write on the groups a caller sets up: inputs and specification    *)
(***************************************************************************)
IsAscii(t) == \A i \in 1 .. Len(t) : t[i] < 128

\* What handle.write(text) raises for a text that is not ASCII: a file object
\* UnicodeEncodeError, an io.BytesIO TypeError
TextWriteErrors == {"UnicodeEncodeError", "TypeError"}

\* The orders in which dict.values() may yield the values under these keys
Orders(keys) ==
    {s \in [1 .. Cardinality(keys) -> keys] :
        \A i, j \in 1 .. Cardinality(keys) : i # j => s[i] # s[j]}

\* Group.write, the whole call with the parameters in this order: the bytes
\* that reached the handle, and whether the call returned.
Group_write_outcome(g, group_id, order) ==
    LET head == <<PackI8(Len(g.name)), PackI8(-group_id)>>
        next == PackI16(3 + Len(g.desc)) \o <<Len(g.desc)>>
    IN  IF ~IsAscii(g.name) THEN [ok |-> FALSE, bytes |-> head]
        ELSE IF ~IsAscii(g.desc)
        THEN [ok |-> FALSE, bytes |-> head \o g.name \o next]
        ELSE [ok |-> TRUE,
              bytes |-> Group_write(g, group_id)
                  \o Flatten([i \in 1 .. Len(order) |->
                                 Param_write(g.params[order[i]], group_id)])]

\* 'ÉTÉ'
ETE == <<201, 84, 201>>

DirectoryNameInputs == {POINT, ETE}

\* A scalar with a description, an array of two characters, and an array
\* declared by its dimensions alone
DirectoryParamInputs ==
    {[name |-> USED, p |-> NewParam(USED, pd, 2, <<>>, PackU16(2))],
     [name |-> LABELS, p |-> NewParam(LABELS, <<>>, -1, <<2, 1>>, <<77, 48>>)],
     [name |-> blob, p |-> NewParam(blob, <<>>, 1, <<250>>, <<>>)]}

AddDirectoryGroup ==
    \E i \in GroupIdInputs, n \in DirectoryNameInputs, d \in {<<>>, pd} :
        add_group(i, n, d) /\ UNCHANGED outsideManager

AddDirectoryParam ==
    \E h \in 1 .. Len(heap), in \in DirectoryParamInputs :
        /\ Upper(in.name) \in DOMAIN heap[h].params \/ ParamCount < MaxParams
        /\ add_param(h, in.name, in.p)
        /\ UNCHANGED outsideManager

\* group.write(group_id, handle) on a handle that is empty
GroupWrite ==
    \E id \in DOMAIN groups_id, exc \in TextWriteErrors :
        \E order \in Orders(DOMAIN heap[groups_id[id]].params) :
            LET o == Group_write_outcome(heap[groups_id[id]], id, order)
            IN  /\ handle = <<>>
                /\ handle' = o.bytes
                /\ result' = IF o.ok THEN Returned("Group.write", <<id>>, 0)
                             ELSE Raised("Group.write", <<id>>, exc)
                /\ UNCHANGED <<header, groups_id, groups_name, heap, config, frames>>
                /\ UNCHANGED outsideWriter

NextDirectory ==
    \/ AddDirectoryGroup
    \/ AddDirectoryParam
    \/ GroupWrite

SpecDirectory == Init /\ [][NextDirectory]_vars

(***************************************************************************)
(* Properties of the metadata store                                        *)
(***************************************************************************)
\* The sum of binary_size() over the Group objects, each taken once
GroupsSizeOnce ==
    SumOver([h \in 1 .. Len(heap) |-> Group_binary_size(heap[h])], 1 .. Len(heap))

\* C4: parameter_blocks() returns the smallest b with 512 * b >= 4 + the sum
\* of binary_size() over the Groups of the store, a Group held under its id
\* and under its name counting once.
ParameterBlocksIsSmallest ==
    (result.op = "parameter_blocks" /\ result.exc = "")
        => /\ 512 * result.val >= 4 + GroupsSizeOnce
           /\ 512 * (result.val - 1) < 4 + GroupsSizeOnce

\* C10: add_group(group_id, name, desc) raises KeyError and leaves the store
\* as it was when group_id or the upper-cased name is already a key;
\* otherwise it adds one new Group, held under group_id and under the
\* upper-cased name, both keys on the same Group, the other keys as before.
AddGroupContract ==
    [][result'.op = "add_group" =>
        LET i == result'.args[1]
            n == Upper(result'.args[2])
        IN  IF i \in DOMAIN groups_id \/ n \in DOMAIN groups_name
            THEN /\ result'.exc = "KeyError"
                 /\ UNCHANGED <<header, groups_id, groups_name, heap>>
            ELSE /\ result'.exc = ""
                 /\ DOMAIN groups_id' = DOMAIN groups_id \cup {i}
                 /\ DOMAIN groups_name' = DOMAIN groups_name \cup {n}
                 /\ groups_id'[i] = groups_name'[n]
                 /\ groups_id'[i] \notin 1 .. Len(heap)
                 /\ Len(heap') = Len(heap) + 1
                 /\ heap'[groups_id'[i]].name = n
                 /\ \A k \in DOMAIN groups_id : groups_id'[k] = groups_id[k]
                 /\ \A k \in DOMAIN groups_name : groups_name'[k] = groups_name[k]
                 /\ \A h \in 1 .. Len(heap) : heap'[h] = heap[h]
    ]_vars

\* C10 witness: two groups have been added and a third call was refused.
AddGroupRefusedAfterTwo ==
    /\ result.op = "add_group"
    /\ result.exc = "KeyError"
    /\ Len(heap) = 2
    /\ \A k \in DOMAIN groups_id : groups_id[k] = groups_name[heap[groups_id[k]].name]

(***************************************************************************)
(* Properties of the Writer                                                *)
(***************************************************************************)
\* C5: after Writer.write with at least one buffered frame (and no group of
\* the caller's in its way) header.data_block = 2 + parameter_blocks() =
\* POINT:DATA_START, the header block is bytes 0..511 (magic byte 80 at
\* offset 1), the directory preamble is at byte 512 (processor byte 84 at
\* offset 515), the frames start at byte 512 * (data_block - 1) and the file
\* ends on a 512-byte boundary.
WriteFileLayout ==
    (result.op = "write" /\ frames # <<>> /\ result.exc # "KeyError")
        => /\ result.exc = ""
           /\ parameter_blocks_value.exc = ""
           /\ header.data_block = 2 + parameter_blocks_value.val
           /\ get_uint16(POINT, DATA_START).exc = ""
           /\ get_uint16(POINT, DATA_START).val = header.data_block
           /\ Len(handle) > 512 * (header.data_block - 1)
           /\ Len(handle) % 512 = 0
           /\ handle[2] = 80
           /\ handle[516] = 84

(***************************************************************************)
(* Properties of the point codec                                           *)
(***************************************************************************)
RLeq(a, b) == ~RLess(b, a)

IsDecodedInvalid(p) == p[4] = RInt(-1) /\ p[5] = RInt(-1)

\* C1: a valid point buffered in a Writer decodes, once stored, to the x, y, z
\* it was buffered with: exactly in float mode (negative scale factor), within
\* half a scale step in integer mode.
CoordinatesRoundTrip ==
    (c_origin = "writer" /\ c_stage = "decoded" /\ IsValid(c_point[4])) =>
        \A i \in 1 .. 3 :
            IF is_float(c_scale) THEN c_decoded[i] = c_point[i]
            ELSE RLeq(RAbs(RSub(c_decoded[i], c_point[i])),
                      RDiv(RAbs(c_scale), RInt(2)))

\* C2: every point buffered in a Writer is stored and then decodes as invalid
\* (error = cameras = -1) exactly when its error column was not greater than -1.
ValidityRoundTrip ==
    (c_origin = "writer" /\ c_stage \in {"write_failed", "decoded"}) =>
        /\ c_stage = "decoded"
        /\ IsDecodedInvalid(c_decoded) <=> ~IsValid(c_point[4])

\* C3: for a valid point buffered with n cameras, 0 <= n <= 9, the stored 4th
\* value has exactly n of the bits 8..16 set, and the decoder returns n.
CameraCountEncoded ==
    (/\ c_origin = "writer"
     /\ c_stage \in {"stored", "decoded"}
     /\ IsValid(c_point[4])
     /\ RLeq(RInt(0), c_point[5]) /\ RLeq(c_point[5], RInt(9))) =>
        /\ RInt(CameraBits(RTrunc(c_raw[4]))) = c_point[5]
        /\ c_stage = "decoded" => c_decoded[5] = c_point[5]

\* C8: whatever the stored 4th value and the scale factor, a point decoded as
\* valid has cameras in [0, 9] and error >= 0, and a point decoded as invalid
\* has both equal to -1.
DecodedRanges ==
    c_stage = "decoded" =>
        IF IsValid(c_raw[4])
        THEN /\ RLeq(RInt(0), c_decoded[5]) /\ RLeq(c_decoded[5], RInt(9))
             /\ RLeq(RInt(0), c_decoded[4])
        ELSE IsDecodedInvalid(c_decoded)

\* A row read from a file with all eight camera bits and a non-zero error
\* byte, decoded in float mode.
DecodedAllCameras ==
    /\ c_stage = "decoded"
    /\ c_origin = "file"
    /\ is_float(c_scale)
    /\ IsValid(c_raw[4])
    /\ c_decoded[5] = RInt(8)
    /\ RLess(RInt(0), c_decoded[4])

(***************************************************************************)
(* Properties of check_metadata                                            *)
(***************************************************************************)
\* The parameter is there and its payload has the width of the type.
HasValue(group, param, width) ==
    HasParam(group, param) /\ Len(GetParam(group, param).bytes) = width

\* header.point_count # POINT:USED; a parameter without a value equals nothing.
PointCountMismatch ==
    ~HasValue(POINT, USED, 2)
    \/ header.point_count # UnpackU16(GetParam(POINT, USED).bytes)

ScaleFactorMismatch ==
    ~HasValue(POINT, SCALE, 4)
    \/ header.scale_factor # UnpackF32(GetParam(POINT, SCALE).bytes)

FrameRateMismatch ==
    ~HasValue(POINT, RATE, 4)
    \/ header.frame_rate # UnpackF32(GetParam(POINT, RATE).bytes)

\* header.analog_count # ANALOG:USED * ANALOG:RATE / frame_rate, an absent
\* ANALOG:USED or ANALOG:RATE counting as 0; a quotient by 0 equals nothing.
AnalogCountMismatch ==
    \/ HasParam(ANALOG, USED) /\ ~HasValue(ANALOG, USED, 2)
    \/ HasParam(ANALOG, RATE) /\ ~HasValue(ANALOG, RATE, 4)
    \/ ~HasValue(POINT, RATE, 4)
    \/ LET used == IF HasParam(ANALOG, USED)
                   THEN RInt(UnpackU16(GetParam(ANALOG, USED).bytes)) ELSE RInt(0)
           arate == IF HasParam(ANALOG, RATE)
                    THEN UnpackF32(GetParam(ANALOG, RATE).bytes) ELSE RInt(0)
           rate == UnpackF32(GetParam(POINT, RATE).bytes)
       IN  RIsZero(rate) \/ RMul(RInt(header.analog_count), rate) # RMul(used, arate)

DataBlockMismatch ==
    ~HasValue(POINT, DATA_START, 2)
    \/ header.data_block # UnpackU16(GetParam(POINT, DATA_START).bytes)

AnyMismatch ==
    \/ PointCountMismatch
    \/ ScaleFactorMismatch
    \/ FrameRateMismatch
    \/ AnalogCountMismatch
    \/ DataBlockMismatch

\* C9: check_metadata fails exactly when the header's point count, scale
\* factor, frame rate, analog count or data block differs from what the
\* parameters give; whether POINT:LABELS, POINT:DESCRIPTIONS, ANALOG:USED,
\* ANALOG:LABELS or ANALOG:DESCRIPTIONS are there plays no part; and the check
\* changes neither the header nor the groups.
CheckFailsExactlyOnMismatch ==
    [][result'.op = "check_metadata" =>
          /\ (result'.exc # "") <=> AnyMismatch
          /\ header' = header
          /\ groups_id' = groups_id
          /\ groups_name' = groups_name
          /\ heap' = heap]_vars

\* The check has passed on a store without POINT:LABELS, POINT:DESCRIPTIONS
\* or an ANALOG group.
CheckPassedWithoutOptional ==
    /\ result.op = "check_metadata"
    /\ result.exc = ""
    /\ ~HasParam(POINT, LABELS)
    /\ ~HasParam(POINT, DESCRIPTIONS)
    /\ ANALOG \notin DOMAIN groups_name

(***************************************************************************)
(* Properties of Reader construction                                       *)
(***************************************************************************)
NoGroup == groups_id = NoGroups /\ groups_name = NoGroups /\ heap = <<>>

\* C6: a Reader on a file whose magic byte is not 80 fails having read the 512
\* header bytes and nothing more; on a file with magic byte 80 and a processor
\* id other than 84 it fails having read the header and the 4 bytes before the
\* directory, none of the directory; either way it holds no Group and yields
\* no frame.
NoPartialRead ==
    r_stage \notin {"none", "closed"} =>
        /\ file.header[2] # 80 =>
              /\ r_stage = "failed" /\ result.exc = "AssertionError"
              /\ reads = <<512>>
              /\ NoGroup /\ r_frames = <<>>
        /\ (file.header[2] = 80 /\ file.preamble[4] # 84) =>
              /\ r_stage = "failed" /\ result.exc = "ValueError"
              /\ reads = <<512, 4>>
              /\ r_bytes = Buf(<<>>, 0)
              /\ NoGroup /\ r_frames = <<>>

\* Construction has failed on the processor id, on a file with a directory.
FailedOnProcessor ==
    /\ r_stage = "failed"
    /\ result.exc = "ValueError"
    /\ file.header[2] = 80
    /\ file.records # <<>>

\* The directory scan of Reader.__init__, from store st on directory b, in at
\* most `fuel` passes
RECURSIVE ScanDirectory(_, _, _)
ScanDirectory(st, b, fuel) ==
    IF BufLen(b) = 0 \/ fuel = 0
    THEN [status |-> "break", exc |-> "", store |-> st, bytes |-> b]
    ELSE LET o == scan_record(st, b)
         IN  IF o.status = "next" THEN ScanDirectory(o.store, o.bytes, fuel - 1)
             ELSE o

\* The outcome of the scan on a parameter section holding these records
ScanOutcome(recs) ==
    ScanDirectory(EmptyStore, Buf(Flatten(recs), 508 - Len(Flatten(recs))),
                  Len(recs) + 1)

IsParamOf(rec, G) == UnpackI8(rec[2]) = G

IsHeaderOf(rec, G) == UnpackI8(rec[2]) = -G

FirstParam(recs, G) ==
    CHOOSE i \in 1 .. Len(recs) :
        IsParamOf(recs[i], G) /\ \A k \in 1 .. i - 1 : ~IsParamOf(recs[k], G)

FirstHeader(recs, G) ==
    CHOOSE j \in 1 .. Len(recs) :
        IsHeaderOf(recs[j], G) /\ \A k \in 1 .. j - 1 : ~IsHeaderOf(recs[k], G)

\* A parameter record of group G comes before the first header record of G.
ParamBeforeHeader(recs, G) ==
    /\ \E i \in 1 .. Len(recs) : IsParamOf(recs[i], G)
    /\ \E j \in 1 .. Len(recs) : IsHeaderOf(recs[j], G)
    /\ FirstParam(recs, G) < FirstHeader(recs, G)

\* The same records with the header record of G moved before G's parameters
HeaderFirst(recs, G) ==
    LET i == FirstParam(recs, G)
        j == FirstHeader(recs, G)
    IN  SubSeq(recs, 1, i - 1) \o <<recs[j]>> \o SubSeq(recs, i, j - 1)
          \o SubSeq(recs, j + 1, Len(recs))

\* The scan has ended: the loop was left, or a pass of it raised.
ScanEnded ==
    \/ r_stage \in {"checking", "ready"}
    \/ r_stage = "failed" /\ result.op = "Reader" /\ result.exc # "ValueError"

\* The record the next pass reads, when it is a header record
NextHeaderName == Upper(SubSeq(r_bytes.data, 3, 2 + r_bytes.data[1]))

NextHeaderDesc ==
    LET at == 2 + r_bytes.data[1] + 2
    IN  SubSeq(r_bytes.data, at + 2, at + 1 + r_bytes.data[at + 1])

\* C7: when parameter records of group G come before the header record of G,
\* the pass over the header record leaves one Group for G, under the id G and
\* under the header's upper-cased name, with the header's name and
\* description and the parameters read before; and the scan ends as it does
\* when the header record comes first.
OutOfOrderGroupHeader ==
    /\ [](\A G \in 1 .. 2 :
            (ScanEnded /\ ParamBeforeHeader(file.records, G)) =>
                LET o == ScanOutcome(HeaderFirst(file.records, G))
                IN  /\ o.exc = (IF r_stage = "failed" THEN result.exc ELSE "")
                    /\ o.store = Store(groups_id, groups_name, heap))
    /\ [][\A G \in 1 .. 2 :
            (/\ r_stage = "scanning"
             /\ Len(r_bytes.data) > 2
             /\ IsHeaderOf(r_bytes.data, G)
             /\ G \in DOMAIN groups_id
             /\ heap[groups_id[G]].name = None) =>
                LET h == groups_id[G]
                IN  /\ r_stage' = "scanning"
                    /\ groups_id' = groups_id
                    /\ Len(heap') = Len(heap)
                    /\ NextHeaderName \in DOMAIN groups_name'
                    /\ groups_name'[NextHeaderName] = h
                    /\ heap'[h] = [name |-> NextHeaderName, desc |-> NextHeaderDesc,
                                   params |-> heap[h].params]]_vars

(***************************************************************************)
(* Properties of the decoder in integer mode                               *)
(***************************************************************************)
\* The 4th stored value of the point, read as an unsigned 16-bit number
FourthUnsigned == RTrunc(c_raw[4]) % 65536

\* The row of a file was decoded in integer mode.
DecodedIntegerRow ==
    c_stage = "decoded" /\ c_origin = "file" /\ ~is_float(c_scale)

\* error = (c & 0xFF) * scale and cameras = the set bits of c among 8..16
DecodedAsValid(c) ==
    /\ c_decoded[4] = RMul(RInt(c % 256), RAbs(c_scale))
    /\ c_decoded[5] = RInt(CameraBits(c))

\* C11, as stated: in integer mode a point decodes as invalid exactly when its
\* 4th value, read as unsigned 16-bit c, is 65535; for every other c it
\* decodes as valid, with error (c & 0xFF) * scale and cameras the number of
\* set bits of c among positions 8..16.
InvalidOnlyAtSentinel ==
    DecodedIntegerRow =>
        IF FourthUnsigned = 65535 THEN IsDecodedInvalid(c_decoded)
        ELSE DecodedAsValid(FourthUnsigned)

\* C11, amended: in integer mode a point decodes as invalid exactly when its
\* 4th value is negative as a signed 16-bit number, that is c in 32768..65535;
\* for every c in 0..32767 it decodes as valid, with error (c & 0xFF) * scale
\* and cameras the number of set bits of c among positions 8..16.
InvalidWhenNegative ==
    DecodedIntegerRow =>
        IF FourthUnsigned >= 32768 THEN IsDecodedInvalid(c_decoded)
        ELSE DecodedAsValid(FourthUnsigned)

\* A row whose 4th value is negative and not -1 was decoded, as invalid.
DecodedNegativeNotSentinel ==
    /\ DecodedIntegerRow
    /\ FourthUnsigned \in 32768 .. 65534
    /\ IsDecodedInvalid(c_decoded)

(***************************************************************************)
(* Properties of the directory scan                                        *)
(***************************************************************************)
\* The length of the directory read: one block less the 4 bytes before it
DirectoryLen == 512 - 4

\* Where in the directory the next pass starts
ScanPos == DirectoryLen - BufLen(r_bytes)

\* The name-length byte, the group-id byte and the offset field of the record
\* the next pass reads
NextL == UnpackI8(BufAt(r_bytes, 1))

NextG == UnpackI8(BufAt(r_bytes, 2))

NextOffset ==
    UnpackI16(<<BufAt(r_bytes, 3 + Abs(NextL)), BufAt(r_bytes, 4 + Abs(NextL))>>)

\* C12: a pass over a record that starts at record_start, with name-length
\* byte L and offset field next_offset, leaves the scan at
\* record_start + 2 + |L| + next_offset (or at the end of the directory when
\* that lies beyond it); a record whose group-id byte or name-length byte is 0
\* ends the scan, and nothing after it is parsed.
ScanNavigation ==
    [][(r_stage = "scanning" /\ BufLen(r_bytes) >= 2) =>
          IF NextG = 0 \/ NextL = 0
          THEN /\ r_stage' = "checking"
               /\ <<groups_id, groups_name, heap>>' = <<groups_id, groups_name, heap>>
          ELSE r_stage' = "scanning" =>
                 ScanPos' = Min(ScanPos + 2 + Abs(NextL) + NextOffset, DirectoryLen)]_vars

\* C18: the scan of the directory ends: each pass of its loop leaves the
\* loop, raises, or leaves a strictly shorter buffer to scan.
ScanPassShortens ==
    [][(r_stage = "scanning" /\ BufLen(r_bytes) > 0) =>
          \/ r_stage' # "scanning"
          \/ BufLen(r_bytes') < BufLen(r_bytes)]_vars

\* C19: every name key of the store maps to a Group that is the value of
\* exactly one id key and whose name is the key.
DualIndex ==
    \A n \in DOMAIN groups_name :
        /\ Cardinality({i \in DOMAIN groups_id : groups_id[i] = groups_name[n]}) = 1
        /\ heap[groups_name[n]].name = n

(***************************************************************************)
(* Properties of the directory records                                     *)
(***************************************************************************)
\* len(bytes) = product(dimensions) * |bytes_per_element| for each parameter
PayloadInvariant(g) ==
    \A k \in DOMAIN g.params : Len(g.params[k].bytes) = total_bytes(g.params[k])

WrittenGroup == heap[groups_id[result.args[1]]]

\* The scan of Reader.__init__ over the bytes on the handle, followed by the
\* zero bytes that fill the block
ScanWritten ==
    ScanDirectory(EmptyStore, Buf(handle, DirectoryLen - Len(handle)),
                  Cardinality(DOMAIN WrittenGroup.params) + 2)

\* C13: for a Group whose parameters hold payloads of their declared length,
\* Group.write emits binary_size() bytes, the offsets written lead the
\* decoder from each record to the first byte after it (so that it stops on
\* the first byte after the last record), and the decoder finds the same group
\* id and name and the same parameters with the same dimensions and payloads.
DirectoryAgreement ==
    (result.op = "Group.write" /\ PayloadInvariant(WrittenGroup))
        => /\ result.exc = ""
           /\ Len(handle) = Group_binary_size(WrittenGroup)
           /\ ScanWritten.status = "break"
           /\ ScanWritten.exc = ""
           /\ BufLen(ScanWritten.bytes) = DirectoryLen - Len(handle)
           /\ DOMAIN ScanWritten.store.groups_id = {result.args[1]}
           /\ DOMAIN ScanWritten.store.groups_name = {WrittenGroup.name}
           /\ LET read == ScanWritten.store.heap[1]
              IN  /\ read.name = WrittenGroup.name
                  /\ DOMAIN read.params = DOMAIN WrittenGroup.params
                  /\ \A k \in DOMAIN read.params :
                        /\ read.params[k].dimensions = WrittenGroup.params[k].dimensions
                        /\ read.params[k].bytes = WrittenGroup.params[k].bytes

(***************************************************************************)
(* Properties of the analog calibration                                    *)
(***************************************************************************)
\* The items of a parameter's payload, `width` bytes each, as their bytes
EntriesOf(p, width) ==
    [i \in 1 .. Len(p.bytes) \div width |->
        SubSeq(p.bytes, width * (i - 1) + 1, width * i)]

\* offset[k]: 0 when ANALOG:OFFSET is absent or short
ExpectedOffset(k) ==
    IF ~HasParam(ANALOG, OFFSET) THEN RInt(0)
    ELSE LET e == EntriesOf(GetParam(ANALOG, OFFSET), 2)
         IN  IF Len(e) < analog_per_frame.val THEN RInt(0) ELSE RInt(UnpackI16(e[k]))

\* scale[k]: 1 when ANALOG:SCALE is absent or short
ExpectedScale(k) ==
    IF ~HasParam(ANALOG, SCALE) THEN RInt(1)
    ELSE LET e == EntriesOf(GetParam(ANALOG, SCALE), 4)
         IN  IF Len(e) < analog_per_frame.val THEN RInt(1) ELSE UnpackF32(e[k])

ExpectedGenScale ==
    IF HasParam(ANALOG, GEN_SCALE) THEN get_float(ANALOG, GEN_SCALE).val ELSE RInt(1)

\* The k-th analog item stored for the i-th frame of a file without points
StoredAnalog(i, k) ==
    FromFile(file.data, 0, is_float(header.scale_factor),
             2 * header.analog_count)[(i - 1) * header.analog_count + k]

\* C14: read_frames on a file with ANALOG:USED = header.analog_count channels
\* ends without an exception and gives, for channel k of each frame,
\* (raw - offset[k]) * scale[k] * gen_scale, offset[k] being 0 and scale[k]
\* being 1 when the parameter is absent or holds fewer entries than there are
\* channels, and gen_scale 1 when ANALOG:GEN_SCALE is absent.
AnalogDefaults ==
    (result.op = "read_frames" /\ header.analog_count > 0
     /\ analog_per_frame.val = header.analog_count)
        => /\ result.exc = ""
           /\ Len(r_frames) = 2
           /\ \A i \in 1 .. Len(r_frames) :
                 /\ Len(r_frames[i].analog) = header.analog_count
                 /\ \A k \in 1 .. Len(r_frames[i].analog) :
                       r_frames[i].analog[k] =
                           RMul(RMul(RSub(StoredAnalog(i, k), ExpectedOffset(k)),
                                     ExpectedScale(k)),
                                ExpectedGenScale)

(***************************************************************************)
(* Properties of what the Writer commits                                   *)
(***************************************************************************)
\* C15: a call of Writer.write with no frame buffered leaves the handle, the
\* header and the groups as they were; a call of write or of _write_metadata
\* changes the handle only when the check of the metadata passes (and, for
\* write, a frame is buffered); when check_metadata fails within
\* _write_metadata the handle is as it was, the header block not written.
WriteCommitsOnlyChecked ==
    [][/\ (result'.op = "write" /\ frames = <<>>)
             => /\ handle' = handle
                /\ header' = header
                /\ <<groups_id, groups_name, heap>>' = <<groups_id, groups_name, heap>>
       /\ (result'.op = "write" /\ handle' # handle)
             => (frames # <<>> /\ check_metadata_outcome'.exc = "")
       /\ (result'.op = "_write_metadata" /\ check_metadata_outcome.exc # "")
             => (handle' = handle /\ result'.exc = check_metadata_outcome.exc)
       /\ (result'.op = "_write_metadata" /\ handle' # handle)
             => check_metadata_outcome.exc = ""]_vars

\* _write_metadata has failed the check of a Writer with a frame buffered, and
\* the handle is empty.
CheckFailedNothingWritten ==
    /\ result.op = "_write_metadata"
    /\ check_metadata_outcome.exc = "AssertionError"
    /\ result.exc = "AssertionError"
    /\ frames # <<>>
    /\ handle = <<>>

(***************************************************************************)
(* Properties of the frames the Writer writes                              *)
(***************************************************************************)
FRAMES == <<70, 82, 65, 77, 69, 83>>

\* C16: after Writer.write with n >= 1 buffered frames (and no group of the
\* caller's in its way) TRIAL:ACTUAL_START_FIELD holds 1, and
\* TRIAL:ACTUAL_END_FIELD, header.last_frame and POINT:FRAMES hold
\* min(n, 65535), so that first_frame() is 1 and last_frame() is what the
\* header declares.
FrameRangeWritten ==
    (result.op = "write" /\ frames # <<>> /\ result.exc # "KeyError")
        => /\ result.exc = ""
           /\ HasParam(TRIAL, ACTUAL_START_FIELD)
           /\ HasParam(TRIAL, ACTUAL_END_FIELD)
           /\ first_frame.val = 1
           /\ last_frame.val = Min(Len(frames), 65535)
           /\ header.last_frame = last_frame.val
           /\ get_uint16(POINT, FRAMES).exc = ""
           /\ get_uint16(POINT, FRAMES).val = header.last_frame

\* The bytes an item of the frame data takes
ItemWidth == IF is_float(scale_factor.val) THEN 4 ELSE 2

\* The bytes Reader.read_frames consumes for a frame
FrameWidth(f) == ItemWidth * (4 * Len(f.points) + Len(f.analog))

\* Where the i-th buffered frame begins in the frame data
FrameStart(i) == SumOver([j \in 1 .. i - 1 |-> FrameWidth(frames[j])], 1 .. i - 1)

\* C17: _write_frames, started in position on a Writer whose frames hold
\* POINT:USED points each, writes for each buffered frame, in order, 4 items
\* for each point and then the frame's analog values as they are, each item
\* in the type the decoder reads, so that a frame takes the bytes
\* read_frames consumes for it.
FrameBodyWritten ==
    (/\ result.op = "_write_frames"
     /\ result.exc # "AssertionError"
     /\ scale_factor.exc = ""
     /\ points_per_frame.exc = ""
     /\ \A i \in 1 .. Len(frames) : Len(frames[i].points) = points_per_frame.val)
        => /\ Len(handle) = FrameStart(Len(frames) + 1)
           /\ \A i \in 1 .. Len(frames) :
                 FromFile(handle, FrameStart(i) + ItemWidth * 4 * Len(frames[i].points),
                          is_float(scale_factor.val), Len(frames[i].analog))
                     = frames[i].analog

(***************************************************************************)
(* Properties of the metadata the Writer derives                           *)
(***************************************************************************)
\* a * analog_frame_rate / point_frame_rate = a, for the a analog values of
\* the first buffered frame
AnalogCountAgrees ==
    RMul(RInt(Len(frames[1].analog)),
         RDiv(config.analog_frame_rate, config.point_frame_rate))
        = RInt(Len(frames[1].analog))

\* C20: Writer.write with a buffered frame (and no group of the caller's in
\* its way) gets past its check of the metadata exactly when the first frame's
\* analog count a satisfies a * analog_frame_rate / point_frame_rate = a, and
\* fails it otherwise by the assertion on the analog count; the point count,
\* the scale factor, the frame rate and the data block of the header agree
\* with the POINT parameters either way.
DerivedMetadataChecked ==
    (result.op = "write" /\ frames # <<>> /\ result.exc # "KeyError")
        => /\ (result.exc = "") <=> AnalogCountAgrees
           /\ result.exc \in {"", "AssertionError"}
           /\ ~PointCountMismatch
           /\ ~ScaleFactorMismatch
           /\ ~FrameRateMismatch
           /\ ~DataBlockMismatch

================================================================================
